---- MODULE Spec2Model ----
(***************************************************************************)
(* Status classification and threshold-based problem detection of the      *)
(* OpenManager dashboard: AIProcessor (rule table, getEffectiveServerStatus,*)
(* detectProblems, updateData/addDataToHistory) and the parts of           *)
(* DataProcessor that consume them (getServerStatus, updateProblemsList).  *)
(*                                                                         *)
(* A JavaScript object is a TLA+ record whose DOMAIN holds exactly the     *)
(* properties that are defined; a property that is absent reads as         *)
(* undefined.  A string that the code inspects character by character      *)
(* (an error message) is a sequence of one-character strings.  A call that *)
(* raises a TypeError yields the value Throw.                              *)
(***************************************************************************)
EXTENDS Integers, Sequences, FiniteSets, TLC

VARIABLES
    aiProcessor,              \* DataProcessor.aiProcessor / window.aiProcessor
    serverData,               \* AIProcessor.serverData, <<>> while it is absent
    serverDataAbsent,         \* AIProcessor.serverData is null or undefined
    historicalData,           \* AIProcessor.historicalData
    problemPatterns,          \* AIProcessor.problemPatterns
    dpServerData,             \* DataProcessor.serverData
    filteredData,             \* DataProcessor.filteredData
    currentFilter,            \* DataProcessor.currentFilter
    searchQuery,              \* DataProcessor.searchQuery
    currentPage,              \* DataProcessor.currentPage
    itemsPerPage,             \* DataProcessor.itemsPerPage
    statusSummary,            \* the counts rendered in #statusSummaryContainer
    generatorHistoricalData,  \* DummyDataGenerator.historicalData
    generatorServerData,      \* DummyDataGenerator.serverData
    windowServerData,         \* window.serverData as the generator assigns it
    isGenerating,             \* DummyDataGenerator.isGenerating
    generatedCount,           \* DummyDataGenerator.generatedCount
    currentHour,              \* DummyDataGenerator.currentHour
    batchTimers,              \* pending setTimeout(generateBatch, ...) callbacks
    problemsData,             \* DataProcessor.problemsData
    currentProblemPage,       \* DataProcessor.currentProblemPage
    problemList,              \* the rendered #aiProblemList
    hasLoggedAIProcessorError,\* DataProcessor._hasLoggedAIProcessorError
    hasLoggedNoAIProcessor,   \* DataProcessor._hasLoggedNoAIProcessor
    now,                      \* the clock read by new Date()
    updates,                  \* number of data updates delivered so far
    ret                       \* the call that ran last and what it returned

\* the server grid of DataProcessor, the rendered summary, and the generator
gridVars == <<filteredData, currentFilter, searchQuery, currentPage, itemsPerPage>>
generatorVars == <<generatorServerData, windowServerData, isGenerating, generatedCount,
                   currentHour, batchTimers>>
otherVars == <<gridVars, statusSummary, generatorHistoricalData, generatorVars>>

vars == <<aiProcessor, serverData, serverDataAbsent, historicalData, problemPatterns,
          dpServerData, problemsData, currentProblemPage, problemList,
          hasLoggedAIProcessorError, hasLoggedNoAIProcessor, now, updates, ret,
          otherVars>>

-----------------------------------------------------------------------------
(* Bounds of the model *)

MaxFleet == 2       \* servers per fleet snapshot
MaxUpdates == 1     \* data updates after construction
MaxClock == 1       \* clock ticks
MaxGridFleet == 7   \* servers of the largest fleet shown in the grid
MaxCycles == 146    \* update cycles of the data generator
MaxDispatches == 2  \* serverDataUpdated events handled by the grid
MaxTicks == 2       \* updateData ticks of the generator while and after it generates
MaxDrawn == 10      \* first servers of the generator whose batches draw freely

-----------------------------------------------------------------------------
(* Program constants *)

maxHistoryPoints == 144

\* DummyDataGenerator: this.maxHistoricalPoints
maxHistoricalPoints == 144
\* DummyDataGenerator.dayHours
dayHours == 24
problemsPerPage == 5
thresholds ==
    [critical |-> [cpu |-> 90, memory |-> 90, disk |-> 90],
     warning  |-> [cpu |-> 70, memory |-> 70, disk |-> 70]]

-----------------------------------------------------------------------------
(* JavaScript values *)

Throw == "throw"
Null == [null |-> TRUE]
IsNull(v) == "null" \in DOMAIN v
Has(obj, k) == k \in DOMAIN obj

\* variant: an undefined operand compares as above every threshold
GEUndefinedHigh(obj, k, n) == ~Has(obj, k) \/ obj[k] >= n

\* obj.k >= n, where an undefined operand compares false
GE(obj, k, n) == Has(obj, k) /\ obj[k] >= n
\* obj.k > n
GT(obj, k, n) == Has(obj, k) /\ obj[k] > n

Str(chars) == [typeof |-> "string", chars |-> chars]
NotAString == [typeof |-> "number", chars |-> <<>>]

lowerOf ==
    "A" :> "a" @@ "B" :> "b" @@ "C" :> "c" @@ "D" :> "d" @@ "E" :> "e" @@
    "F" :> "f" @@ "G" :> "g" @@ "H" :> "h" @@ "I" :> "i" @@ "J" :> "j" @@
    "K" :> "k" @@ "L" :> "l" @@ "M" :> "m" @@ "N" :> "n" @@ "O" :> "o" @@
    "P" :> "p" @@ "Q" :> "q" @@ "R" :> "r" @@ "S" :> "s" @@ "T" :> "t" @@
    "U" :> "u" @@ "V" :> "v" @@ "W" :> "w" @@ "X" :> "x" @@ "Y" :> "y" @@
    "Z" :> "z"

\* String.prototype.toLowerCase
toLowerCase(chars) ==
    [i \in 1..Len(chars) |->
        IF chars[i] \in DOMAIN lowerOf THEN lowerOf[chars[i]] ELSE chars[i]]

\* String.prototype.includes
includes(chars, needle) ==
    \E k \in 0..(Len(chars) - Len(needle)) :
        \A j \in 1..Len(needle) : chars[k + j] = needle[j]

kwCritical == <<"c", "r", "i", "t", "i", "c", "a", "l">>
kwWarning == <<"w", "a", "r", "n", "i", "n", "g">>
kwError == <<"e", "r", "r", "o", "r">>

\* Object.values(obj)
ObjectValues(obj) == {obj[k] : k \in DOMAIN obj}

\* Date.prototype.toISOString is one-to-one on instants; an instant stands
\* for its own ISO string.
toISOString(t) == t

-----------------------------------------------------------------------------
(* AIProcessor: the rule table *)

\* the fields of the table that are data; the condition of a rule is the
\* operator condition below, selected by the rule's id
initProblemPatterns ==
    << [id |-> "critical_cpu",           severity |-> "critical",
        description |-> "CPU >= 90",     causes |-> "cpu-causes-90",
        solutions |-> "cpu-solutions-90"],
       [id |-> "critical_memory",        severity |-> "critical",
        description |-> "memory >= 90",  causes |-> "memory-causes-90",
        solutions |-> "memory-solutions-90"],
       [id |-> "critical_disk",          severity |-> "critical",
        description |-> "disk >= 90",    causes |-> "disk-causes-90",
        solutions |-> "disk-solutions-90"],
       [id |-> "service_down",           severity |-> "critical",
        description |-> "service stopped", causes |-> "service-causes",
        solutions |-> "service-solutions"],
       [id |-> "critical_error_message", severity |-> "critical",
        description |-> "Critical message", causes |-> "critical-message-causes",
        solutions |-> "critical-message-solutions"],
       [id |-> "warning_cpu",            severity |-> "warning",
        description |-> "CPU >= 70",     causes |-> "cpu-causes-70",
        solutions |-> "cpu-solutions-70"],
       [id |-> "warning_memory",         severity |-> "warning",
        description |-> "memory >= 70",  causes |-> "memory-causes-70",
        solutions |-> "memory-solutions-70"],
       [id |-> "warning_disk",           severity |-> "warning",
        description |-> "disk >= 70",    causes |-> "disk-causes-70",
        solutions |-> "disk-solutions-70"],
       [id |-> "warning_error_message",  severity |-> "warning",
        description |-> "Warning or Error message", causes |-> "warning-message-causes",
        solutions |-> "warning-message-solutions"],
       [id |-> "network_errors",         severity |-> "warning",
        description |-> "network errors", causes |-> "network-causes",
        solutions |-> "network-solutions"] >>

\* variant: the disk threshold compared with > in place of >=
diskAbove(server, n) ==
    /\ Has(server, "disk")
    /\ Len(server.disk) > 0
    /\ GT(server.disk[1], "disk_usage_percent", n)

\* server.disk && server.disk.length > 0 && server.disk[0].disk_usage_percent >= n
diskAtLeast(server, n) ==
    /\ Has(server, "disk")
    /\ Len(server.disk) > 0
    /\ GE(server.disk[1], "disk_usage_percent", n)

\* server.services && Object.values(server.services).includes('stopped')
hasStoppedService(server) ==
    Has(server, "services") /\ "stopped" \in ObjectValues(server.services)

\* server.errors && server.errors.some(err => typeof err === 'string' &&
\*     err.toLowerCase().includes('critical'))
hasCriticalError(server) ==
    /\ Has(server, "errors")
    /\ \E i \in 1..Len(server.errors) :
          /\ server.errors[i].typeof = "string"
          /\ includes(toLowerCase(server.errors[i].chars), kwCritical)

\* variant: the 'error' keyword left out of the warning message rule
hasWarningErrorOnlyWarning(server) ==
    /\ Has(server, "errors")
    /\ \E i \in 1..Len(server.errors) :
          /\ server.errors[i].typeof = "string"
          /\ includes(toLowerCase(server.errors[i].chars), kwWarning)

\* ... (err.toLowerCase().includes('warning') || err.toLowerCase().includes('error'))
hasWarningError(server) ==
    /\ Has(server, "errors")
    /\ \E i \in 1..Len(server.errors) :
          /\ server.errors[i].typeof = "string"
          /\ \/ includes(toLowerCase(server.errors[i].chars), kwWarning)
             \/ includes(toLowerCase(server.errors[i].chars), kwError)

\* server.net && (server.net.rx_errors > 50 || server.net.tx_errors > 50)
hasNetworkErrors(server) ==
    /\ Has(server, "net")
    /\ (GT(server.net, "rx_errors", 50) \/ GT(server.net, "tx_errors", 50))

\* pattern.condition(server) for an object server
condition(id, server) ==
    CASE id = "critical_cpu"           -> GE(server, "cpu_usage", 90)
      [] id = "critical_memory"        -> GE(server, "memory_usage_percent", 90)
      [] id = "critical_disk"          -> diskAtLeast(server, 90)
      [] id = "service_down"           -> hasStoppedService(server)
      [] id = "critical_error_message" -> hasCriticalError(server)
      [] id = "warning_cpu"            -> GE(server, "cpu_usage", 70)
      [] id = "warning_memory"         -> GE(server, "memory_usage_percent", 70)
      [] id = "warning_disk"           -> diskAtLeast(server, 70)
      [] id = "warning_error_message"  -> hasWarningError(server)
      [] id = "network_errors"         -> hasNetworkErrors(server)
      [] OTHER                         -> FALSE

\* variant: the disk rules read server.disk[0] without the guards
conditionThrowsUnguardedDisk(id, server) ==
    \/ IsNull(server)
    \/ /\ id \in {"critical_disk", "warning_disk"}
       /\ (~Has(server, "disk") \/ Len(server.disk) = 0)

\* server.disk[0] is null: server.disk[0].disk_usage_percent raises
nullMount(server) ==
    /\ ~IsNull(server)
    /\ Has(server, "disk")
    /\ Len(server.disk) > 0
    /\ IsNull(server.disk[1])

\* pattern.condition(server) raises: every condition starts by reading a
\* property of server; the dereferences of absent fields are guarded, the
\* one of the first mount is not
conditionThrows(id, server) ==
    \/ IsNull(server)
    \/ (id \in {"critical_disk", "warning_disk"} /\ nullMount(server))

\* variant: the loop leaves out the last rule of the table
RECURSIVE scanPatternsButLast(_, _, _, _)
scanPatternsButLast(patterns, severity, server, i) ==
    IF i >= Len(patterns) THEN "none"
    ELSE IF patterns[i].severity # severity
         THEN scanPatternsButLast(patterns, severity, server, i + 1)
    ELSE IF conditionThrows(patterns[i].id, server) THEN Throw
    ELSE IF condition(patterns[i].id, server) THEN "match"
    ELSE scanPatternsButLast(patterns, severity, server, i + 1)

\* one of the two for-of loops of getEffectiveServerStatus, from rule i on:
\* "match", "none", or Throw
RECURSIVE scanPatterns(_, _, _, _)
scanPatterns(patterns, severity, server, i) ==
    IF i > Len(patterns) THEN "none"
    ELSE IF patterns[i].severity # severity
         THEN scanPatterns(patterns, severity, server, i + 1)
    ELSE IF conditionThrows(patterns[i].id, server) THEN Throw
    ELSE IF condition(patterns[i].id, server) THEN "match"
    ELSE scanPatterns(patterns, severity, server, i + 1)

\* AIProcessor.getEffectiveServerStatus
getEffectiveServerStatus(patterns, server) ==
    IF IsNull(server) THEN "normal"
    ELSE LET c == scanPatterns(patterns, "critical", server, 1) IN
         IF c = Throw THEN Throw
         ELSE IF c = "match" THEN "critical"
         ELSE LET w == scanPatterns(patterns, "warning", server, 1) IN
              IF w = Throw THEN Throw
              ELSE IF w = "match" THEN "warning"
              ELSE "normal"

\* AIProcessor.calculateServerStatus: delegates, the method being defined
calculateServerStatus(patterns, server) ==
    getEffectiveServerStatus(patterns, server)

-----------------------------------------------------------------------------
(* DataProcessor.getServerStatus *)

\* the threshold cascade after the delegation to the AI processor
fallbackServerStatus(server) ==
    IF IsNull(server) THEN Throw
    ELSE IF /\ ~GE(server, "cpu_usage", thresholds.critical.cpu)
            /\ ~GE(server, "memory_usage_percent", thresholds.critical.memory)
            /\ nullMount(server)
         THEN Throw
    ELSE IF \/ GE(server, "cpu_usage", thresholds.critical.cpu)
            \/ GE(server, "memory_usage_percent", thresholds.critical.memory)
            \/ diskAtLeast(server, thresholds.critical.disk)
         THEN "critical"
    ELSE IF hasCriticalError(server) THEN "critical"
    ELSE IF hasStoppedService(server) THEN "critical"
    ELSE IF \/ GE(server, "cpu_usage", thresholds.warning.cpu)
            \/ GE(server, "memory_usage_percent", thresholds.warning.memory)
            \/ diskAtLeast(server, thresholds.warning.disk)
         THEN "warning"
    ELSE IF hasWarningError(server) THEN "warning"
    ELSE "normal"

\* which branch getServerStatus takes: "ai" (the delegate returned),
\* "ai-threw" (the catch block ran) or "no-ai"
statusPath(ai, patterns, server) ==
    IF ai = "AIProcessor"
    THEN IF getEffectiveServerStatus(patterns, server) = Throw
         THEN "ai-threw" ELSE "ai"
    ELSE "no-ai"

getServerStatus(ai, patterns, server) ==
    IF statusPath(ai, patterns, server) = "ai"
    THEN getEffectiveServerStatus(patterns, server)
    ELSE fallbackServerStatus(server)

-----------------------------------------------------------------------------
(* AIProcessor.detectProblems *)

\* the object pushed for one (server, rule) pair
problemEntry(server, pattern, t) ==
    [serverHostname |-> server.hostname,
     description    |-> pattern.description,
     severity       |-> IF pattern.severity = "critical" THEN "Critical" ELSE "Warning",
     solution       |-> pattern.solutions,
     causes         |-> pattern.causes,
     timestamp      |-> toISOString(t)]

\* variant: the rule loop stops at the first rule that matches
RECURSIVE matchesOfFirstOnly(_, _, _, _)
matchesOfFirstOnly(patterns, server, t, j) ==
    IF j > Len(patterns) THEN <<>>
    ELSE IF condition(patterns[j].id, server)
         THEN <<problemEntry(server, patterns[j], t)>>
         ELSE matchesOfFirstOnly(patterns, server, t, j + 1)

\* this.problemPatterns.forEach(pattern => ...) for one server, from rule j on
RECURSIVE matchesOf(_, _, _, _)
matchesOf(patterns, server, t, j) ==
    IF j > Len(patterns) THEN <<>>
    ELSE (IF condition(patterns[j].id, server)
          THEN <<problemEntry(server, patterns[j], t)>> ELSE <<>>)
         \o matchesOf(patterns, server, t, j + 1)

\* this.serverData.forEach(server => ...), from server i on
RECURSIVE detectFrom(_, _, _, _)
detectFrom(patterns, data, t, i) ==
    IF i > Len(data) THEN <<>>
    ELSE matchesOf(patterns, data[i], t, 1) \o detectFrom(patterns, data, t, i + 1)

\* the pass raises when the status lookup or a condition raises for a server
detectThrows(patterns, data) ==
    \E i \in 1..Len(data) :
        \/ getEffectiveServerStatus(patterns, data[i]) = Throw
        \/ \E j \in 1..Len(patterns) : conditionThrows(patterns[j].id, data[i])

\* variant: the order of the returned entries depends on the clock
detectProblemsByClock(patterns, data, t) ==
    IF Len(data) = 0 THEN [threw |-> FALSE, problems |-> <<>>]
    ELSE IF detectThrows(patterns, data) THEN [threw |-> TRUE, problems |-> <<>>]
    ELSE LET found == detectFrom(patterns, data, t, 1) IN
         [threw |-> FALSE,
          problems |-> IF t % 2 = 0 THEN found
                       ELSE [k \in 1..Len(found) |-> found[Len(found) + 1 - k]]]

detectProblems(patterns, data, t) ==
    IF Len(data) = 0 THEN [threw |-> FALSE, problems |-> <<>>]
    ELSE IF detectThrows(patterns, data) THEN [threw |-> TRUE, problems |-> <<>>]
    ELSE [threw |-> FALSE, problems |-> detectFrom(patterns, data, t, 1)]

\* variant: the pass reads this.serverData.length without testing this.serverData
aiDetectProblemsUntested(absent, patterns, data, t) ==
    IF absent THEN [threw |-> TRUE, problems |-> <<>>]
    ELSE detectProblems(patterns, data, t)

\* this.aiProcessor.detectProblems(): !this.serverData returns the empty list
aiDetectProblems(absent, patterns, data, t) ==
    IF absent THEN [threw |-> FALSE, problems |-> <<>>]
    ELSE detectProblems(patterns, data, t)

-----------------------------------------------------------------------------
(* AIProcessor.addDataToHistory *)

EmptyObject == [k \in {} |-> 0]
\* the property k of the new object, present when src.from is defined
Prop(k, src, from) == IF Has(src, from) THEN k :> src[from] ELSE EmptyObject

\* evaluating the data point raises: disk[0] or net of an undefined value
pointThrows(patterns, server) ==
    \/ ~Has(server, "disk")
    \/ Len(server.disk) = 0
    \/ IsNull(server.disk[1])
    \/ ~Has(server, "net")
    \/ calculateServerStatus(patterns, server) = Throw

dataPoint(patterns, server, t) ==
    ("timestamp" :> toISOString(t))
    @@ Prop("cpu_usage", server, "cpu_usage")
    @@ Prop("memory_usage_percent", server, "memory_usage_percent")
    @@ Prop("disk_usage_percent", server.disk[1], "disk_usage_percent")
    @@ Prop("network_rx", server.net, "rx_bytes")
    @@ Prop("network_tx", server.net, "tx_bytes")
    @@ ("services" :> (IF Has(server, "services") THEN server.services ELSE EmptyObject))
    @@ ("errors" :> (IF Has(server, "errors") THEN server.errors ELSE <<>>))
    @@ ("status" :> calculateServerStatus(patterns, server))

\* variant: the newest point is dropped when the list is over the bound
shiftNewest(points, max) ==
    IF Len(points) > max THEN SubSeq(points, 1, Len(points) - 1) ELSE points

\* if (list.length > max) list.shift()
shiftOldest(points, max) ==
    IF Len(points) > max THEN Tail(points) ELSE points

\* data.forEach(server => ...), from server i on; the loop stops where the
\* callback raises, after the host's list was created
RECURSIVE addFrom(_, _, _, _, _)
addFrom(hist, patterns, data, t, i) ==
    IF i > Len(data) THEN [hist |-> hist, threw |-> FALSE]
    ELSE IF IsNull(data[i]) THEN [hist |-> hist, threw |-> TRUE]
    ELSE LET server == data[i]
             hostname == server.hostname
             h1 == IF hostname \in DOMAIN hist THEN hist ELSE hist @@ (hostname :> <<>>)
         IN  IF pointThrows(patterns, server) THEN [hist |-> h1, threw |-> TRUE]
             ELSE LET pushed == Append(h1[hostname], dataPoint(patterns, server, t))
                      kept == shiftOldest(pushed, maxHistoryPoints)
                  IN  addFrom([h1 EXCEPT ![hostname] = kept], patterns, data, t, i + 1)

addDataToHistory(hist, patterns, data, t) == addFrom(hist, patterns, data, t, 1)

-----------------------------------------------------------------------------
(* DataProcessor.updateProblemsList: filter and sort *)

severityScore(severity) ==
    IF severity = "Critical" THEN 2
    ELSE IF severity \in {"Warning", "Error"} THEN 1
    ELSE 0

\* variant: the comparator with its operands exchanged
compareProblemsAscending(a, b) == severityScore(a.severity) - severityScore(b.severity)

\* (a, b) => severityScore(b.severity) - severityScore(a.severity)
compareProblems(a, b) == severityScore(b.severity) - severityScore(a.severity)

\* problems.filter(p => p && (p.severity === 'Critical' || ...))
filterProblems(problems) ==
    SelectSeq(problems,
              LAMBDA p : Has(p, "severity") /\ p.severity \in {"Critical", "Warning", "Error"})

\* variant: x goes in front of the elements that compare equal to it
RECURSIVE insertSortedBeforeEqual(_, _)
insertSortedBeforeEqual(s, x) ==
    IF Len(s) = 0 THEN <<x>>
    ELSE IF compareProblems(s[Len(s)], x) >= 0
         THEN Append(insertSortedBeforeEqual(SubSeq(s, 1, Len(s) - 1), x), s[Len(s)])
         ELSE Append(s, x)

\* insert x into the sorted sequence s behind every element that does not
\* compare greater than x
RECURSIVE insertSorted(_, _)
insertSorted(s, x) ==
    IF Len(s) = 0 THEN <<x>>
    ELSE IF compareProblems(s[Len(s)], x) > 0
         THEN Append(insertSorted(SubSeq(s, 1, Len(s) - 1), x), s[Len(s)])
         ELSE Append(s, x)

\* Array.prototype.sort with the comparator above; the sort is stable
RECURSIVE sortFrom(_, _, _)
sortFrom(sorted, problems, i) ==
    IF i > Len(problems) THEN sorted
    ELSE sortFrom(insertSorted(sorted, problems[i]), problems, i + 1)

\* variant: the list is left in the order detectProblems returned it
sortProblemsUnsorted(problems) == problems

sortProblems(problems) == sortFrom(<<>>, problems, 1)

\* the comparator of the earlier updateProblemsList: ascending score
compareProblemsEarlier(a, b) == severityScore(a.severity) - severityScore(b.severity)

RECURSIVE insertSortedEarlier(_, _)
insertSortedEarlier(s, x) ==
    IF Len(s) = 0 THEN <<x>>
    ELSE IF compareProblemsEarlier(s[Len(s)], x) > 0
         THEN Append(insertSortedEarlier(SubSeq(s, 1, Len(s) - 1), x), s[Len(s)])
         ELSE Append(s, x)

RECURSIVE sortFromEarlier(_, _, _)
sortFromEarlier(sorted, problems, i) ==
    IF i > Len(problems) THEN sorted
    ELSE sortFromEarlier(insertSortedEarlier(sorted, problems[i]), problems, i + 1)

\* problems.sort(...) of the earlier updateProblemsList
sortProblemsEarlier(problems) == sortFromEarlier(<<>>, problems, 1)

\* the list sizes of the earlier updateProblemsList
maxInitialItems == 3
maxExpandedItems == 10

\* the fallback detection of updateProblemsList: this.serverData.filter(server
\* => ...) takes the callback's object or null as a truth value, so it keeps
\* the servers whose status is critical or warning, as they are; the
\* following filter(p => p !== null) removes nothing
fallbackProblems(ai, patterns, data) ==
    SelectSeq(data, LAMBDA server :
                  getServerStatus(ai, patterns, server) \in {"critical", "warning"})

\* getServerStatus raises inside the fallback detection
fallbackThrows(ai, patterns, data) ==
    \E i \in 1..Len(data) : getServerStatus(ai, patterns, data[i]) = Throw

\* let problems = ... of updateProblemsList: detectProblems when the
\* processor has the method, the fallback detection otherwise
problemsOf(ai, absent, patterns, aiData, dpData, t) ==
    IF ai = "AIProcessor" THEN aiDetectProblems(absent, patterns, aiData, t)
    ELSE IF fallbackThrows(ai, patterns, dpData) THEN [threw |-> TRUE, problems |-> <<>>]
    ELSE [threw |-> FALSE, problems |-> fallbackProblems(ai, patterns, dpData)]

\* Math.ceil(n / d)
Ceil(n, d) == (n + d - 1) \div d

\* Math.min
Min(a, b) == IF a < b THEN a ELSE b

\* problems.slice(startIdx, endIdx), zero-based, end exclusive
slice(s, startIdx, endIdx) == SubSeq(s, startIdx + 1, endIdx)

-----------------------------------------------------------------------------
(* The snapshots and fleets the operations are run on *)

Hostnames == <<"web-kr-001", "db-us-002", "api-eu-003", "cache-jp-004", "app-kr-005">>

\* hostnames as the generator forms them: prefix-region-number
GridHostnames ==
    <<"web-kr-001", "db-us-002", "api-eu-003", "cache-jp-004", "app-kr-005", "web-us-006", "db-kr-007", "api-jp-008", "cache-eu-009">>

MsgCritical == Str(<<"[", "C", "r", "i", "t", "i", "c", "a", "l", "]", " ", "c", "p", "u", ":", " ",
                     "T", "i", "m", "e", "o", "u", "t", " ", "e", "x", "c", "e", "e", "d", "e", "d">>)
MsgWarning == Str(<<"[", "W", "a", "r", "n", "i", "n", "g", "]", " ", "a", "p", "p", ":", " ",
                    "T", "h", "r", "e", "a", "d", " ", "d", "e", "a", "d", "l", "o", "c", "k">>)
MsgError == Str(<<"[", "E", "r", "r", "o", "r", "]", " ", "d", "i", "s", "k", ":", " ",
                  "O", "u", "t", " ", "o", "f", " ", "m", "e", "m", "o", "r", "y">>)
MsgUpper == Str(<<"K", "E", "R", "N", "E", "L", " ", "C", "R", "I", "T", "I", "C", "A", "L">>)
MsgPlain == Str(<<"R", "e", "p", "l", "i", "c", "a", "t", "i", "o", "n", " ", "l", "a", "g">>)
MsgNear == Str(<<"C", "r", "i", "t", "i", "c", "a", " ", "w", "a", "r", "n", "i", "n", " ",
                 "e", "r", "r", "o">>)

\* usage percentages around the two thresholds
Usage == {0, 69, 70, 89, 90}

\* a property k that is absent or holds one of the values
Opt(k, values) == {EmptyObject} \cup {k :> v : v \in values}

Mount(u) == [disk_usage_percent |-> u]
DiskValues == {<<>>, <<Mount(30), Mount(95)>>} \cup {<<Mount(u)>> : u \in Usage}
ServiceValues ==
    {EmptyObject, [nginx |-> "running"], [nginx |-> "running", redis |-> "stopped"]}
ErrorValues ==
    {<<>>, <<MsgCritical>>, <<MsgWarning>>, <<MsgError>>, <<MsgUpper>>, <<MsgPlain>>,
     <<MsgNear>>, <<NotAString>>, <<MsgPlain, MsgWarning>>}
Net(rx, tx) == [rx_bytes |-> 1024, tx_bytes |-> 2048, rx_errors |-> rx, tx_errors |-> tx]
NetValues == {Net(0, 0), Net(50, 50), Net(51, 0), Net(0, 51)}

\* one server with every combination of present and absent fields, and null
Snapshots ==
    {Null} \cup
    { ("hostname" :> Hostnames[1]) @@ c @@ m @@ d @@ s @@ e @@ n :
        c \in Opt("cpu_usage", Usage),
        m \in Opt("memory_usage_percent", Usage),
        d \in Opt("disk", DiskValues),
        s \in Opt("services", ServiceValues),
        e \in Opt("errors", ErrorValues),
        n \in Opt("net", NetValues) }

Profile(cpu, mem, disk, services, errors, net) ==
    [cpu_usage |-> cpu, memory_usage_percent |-> mem, disk |-> <<Mount(disk)>>,
     services |-> services, errors |-> errors, net |-> net]

\* complete snapshots as the data generator produces them
Profiles ==
    { Profile(95, 40, 30, [nginx |-> "running"], <<>>, Net(0, 0)),
      Profile(75, 20, 20, [mysql |-> "running"], <<>>, Net(0, 0)),
      Profile(10, 10, 10, [redis |-> "stopped"], <<>>, Net(0, 0)),
      Profile(10, 10, 10, [nginx |-> "running"], <<>>, Net(0, 0)),
      Profile(20, 92, 20, [nginx |-> "running"], <<MsgWarning>>, Net(60, 0)) }

\* the i-th server of a fleet carries the i-th hostname
Fleets ==
    { [i \in 1..Len(f) |-> ("hostname" :> Hostnames[i]) @@ f[i]] :
        f \in UNION {[1..n -> Profiles] : n \in 0..MaxFleet} }

\* a snapshot on which every rule matches
Loaded ==
    [cpu_usage |-> 95, memory_usage_percent |-> 92, disk |-> <<Mount(95)>>,
     services |-> [nginx |-> "stopped"], errors |-> <<MsgCritical, MsgWarning>>,
     net |-> Net(60, 0)]

\* obj without the property k
Without(obj, k) == [f \in (DOMAIN obj) \ {k} |-> obj[f]]

\* snapshots that lack fields: Loaded less one field, less all, with an empty
\* disk list, with one field only; and a complete snapshot matching no rule
Malformed ==
    {Without(Loaded, k) : k \in DOMAIN Loaded}
    \cup {Loaded, EmptyObject, [Loaded EXCEPT !.disk = <<>>],
          [cpu_usage |-> 75], [net |-> Net(0, 51)],
          Profile(10, 10, 10, [nginx |-> "running"], <<>>, Net(0, 0))}

MalformedFleets ==
    { [i \in 1..Len(f) |->
          IF IsNull(f[i]) THEN Null ELSE ("hostname" :> Hostnames[i]) @@ f[i]] :
        f \in UNION {[1..n -> Malformed \cup {Null}] : n \in 0..MaxFleet} }

\* complete snapshots by status: normal, warning, critical
GridProfiles ==
    << Profile(10, 10, 10, [nginx |-> "running"], <<>>, Net(0, 0)),
       Profile(75, 20, 20, [mysql |-> "running"], <<>>, Net(0, 0)),
       Profile(95, 40, 30, [nginx |-> "running"], <<>>, Net(0, 0)) >>

\* a generated fleet of n servers, the statuses rotating
GridFleet(n) ==
    [i \in 1..n |-> ("hostname" :> GridHostnames[i]) @@ GridProfiles[(i % 3) + 1]]

\* the fleet of the data generator at time t: two servers, the statuses
\* changing from cycle to cycle, each server stamped with the time
generatorFleet(t) ==
    [i \in 1..2 |-> ("hostname" :> GridHostnames[i])
                     @@ GridProfiles[((i + t) % 3) + 1]
                     @@ ("timestamp" :> toISOString(t))]

\* fleets whose problems fill no page, one page, two, three and four pages
PagedFleets ==
    { <<>>,
      <<("hostname" :> GridHostnames[1]) @@ GridProfiles[2]>>,
      <<("hostname" :> GridHostnames[1]) @@ Loaded>>,
      <<("hostname" :> GridHostnames[1]) @@ Loaded,
        ("hostname" :> GridHostnames[2]) @@ GridProfiles[2]>>,
      <<("hostname" :> GridHostnames[1]) @@ Loaded,
        ("hostname" :> GridHostnames[2]) @@ Loaded>> }

\* fleets of no server, of one, and of more than one page of servers
GridFleets == {GridFleet(n) : n \in {0, 1, MaxGridFleet}}

\* the options of the status filter, the page sizes, and the search inputs
\* once lower-cased
FilterOptions == {"all", "normal", "warning", "critical"}
PageSizes == {6, 12}
SearchQueries == {<<>>, <<"k", "r">>}

\* snapshots whose first mount is null, alone and with other fields, and a
\* complete snapshot
NullMounted ==
    { [disk |-> <<Null>>],
      [cpu_usage |-> 95, disk |-> <<Null>>],
      [cpu_usage |-> 75, memory_usage_percent |-> 20, disk |-> <<Null>>],
      [disk |-> <<Null>>, services |-> [nginx |-> "stopped"]],
      [disk |-> <<Null>>, errors |-> <<MsgCritical>>],
      Profile(75, 20, 20, [mysql |-> "running"], <<>>, Net(0, 0)) }

NullMountedFleets ==
    { [i \in 1..Len(f) |-> ("hostname" :> Hostnames[i]) @@ f[i]] :
        f \in UNION {[1..n -> NullMounted] : n \in 1..MaxFleet} }

\* #statusSummaryContainer before updateGlobalStatusSummary first renders it
NoSummary == [rendered |-> FALSE, normal |-> 0, warning |-> 0, critical |-> 0]

-----------------------------------------------------------------------------
(* DataProcessor: the server grid, its pagination and the status summary *)

\* the characters of a hostname
hostnameChars ==
    "web-kr-001" :> <<"w", "e", "b", "-", "k", "r", "-", "0", "0", "1">> @@
    "db-us-002" :> <<"d", "b", "-", "u", "s", "-", "0", "0", "2">> @@
    "api-eu-003" :> <<"a", "p", "i", "-", "e", "u", "-", "0", "0", "3">> @@
    "cache-jp-004" :> <<"c", "a", "c", "h", "e", "-", "j", "p", "-", "0", "0", "4">> @@
    "app-kr-005" :> <<"a", "p", "p", "-", "k", "r", "-", "0", "0", "5">> @@
    "web-us-006" :> <<"w", "e", "b", "-", "u", "s", "-", "0", "0", "6">> @@
    "db-kr-007" :> <<"d", "b", "-", "k", "r", "-", "0", "0", "7">> @@
    "api-jp-008" :> <<"a", "p", "i", "-", "j", "p", "-", "0", "0", "8">> @@
    "cache-eu-009" :> <<"c", "a", "c", "h", "e", "-", "e", "u", "-", "0", "0", "9">>

\* the collation weights of the characters of a hostname
collation ==
    "-" :> 1 @@ "0" :> 2 @@ "1" :> 3 @@ "2" :> 4 @@ "3" :> 5 @@ "4" :> 6 @@
    "5" :> 7 @@ "6" :> 8 @@ "7" :> 9 @@ "8" :> 10 @@ "9" :> 11 @@ "a" :> 12 @@
    "b" :> 13 @@ "c" :> 14 @@ "d" :> 15 @@ "e" :> 16 @@ "f" :> 17 @@ "g" :> 18 @@
    "h" :> 19 @@ "i" :> 20 @@ "j" :> 21 @@ "k" :> 22 @@ "l" :> 23 @@ "m" :> 24 @@
    "n" :> 25 @@ "o" :> 26 @@ "p" :> 27 @@ "q" :> 28 @@ "r" :> 29 @@ "s" :> 30 @@
    "t" :> 31 @@ "u" :> 32 @@ "v" :> 33 @@ "w" :> 34 @@ "x" :> 35 @@ "y" :> 36 @@
    "z" :> 37

\* a.localeCompare(b) on character sequences, from position i on
RECURSIVE localeCompareFrom(_, _, _)
localeCompareFrom(a, b, i) ==
    IF i > Len(a) /\ i > Len(b) THEN 0
    ELSE IF i > Len(a) THEN -1
    ELSE IF i > Len(b) THEN 1
    ELSE IF collation[a[i]] < collation[b[i]] THEN -1
    ELSE IF collation[a[i]] > collation[b[i]] THEN 1
    ELSE localeCompareFrom(a, b, i + 1)

\* a.hostname.localeCompare(b.hostname)
localeCompare(a, b) == localeCompareFrom(hostnameChars[a], hostnameChars[b], 1)

\* insertion of x behind every element that does not compare greater
RECURSIVE insertByName(_, _)
insertByName(s, x) ==
    IF Len(s) = 0 THEN <<x>>
    ELSE IF localeCompare(s[Len(s)].hostname, x.hostname) > 0
         THEN Append(insertByName(SubSeq(s, 1, Len(s) - 1), x), s[Len(s)])
         ELSE Append(s, x)

RECURSIVE sortDataFrom(_, _, _)
sortDataFrom(sorted, data, i) ==
    IF i > Len(data) THEN sorted
    ELSE sortDataFrom(insertByName(sorted, data[i]), data, i + 1)

\* sortData with currentSort = 'name', the value the constructor sets
sortData(data) == sortDataFrom(<<>>, data, 1)

\* the callback of this.serverData.filter in applyFiltersAndSort
passesFilters(ai, patterns, server, filter, query) ==
    /\ (query = <<>> \/ includes(toLowerCase(hostnameChars[server.hostname]), query))
    /\ (filter = "all" \/ getServerStatus(ai, patterns, server) = filter)

\* this.filteredData after applyFiltersAndSort, for servers that are objects
\* with a hostname (neither the filter nor the sort raises for them)
applyFiltersAndSort(ai, patterns, data, filter, query) ==
    sortData(SelectSeq(data, LAMBDA server : passesFilters(ai, patterns, server, filter, query)))

\* Math.ceil(this.filteredData.length / this.itemsPerPage)
totalPagesOf(filtered, perPage) == Ceil(Len(filtered), perPage)

\* the cards updateServerGrid appends: filteredData[startIndex .. endIndex - 1]
serverGridCards(filtered, page, perPage) ==
    slice(filtered, (page - 1) * perPage, Min((page - 1) * perPage + perPage, Len(filtered)))

\* the page numbers for which updateNumericPagination creates a button
pageButtons(page, totalPages) ==
    LET maxVisiblePages == 5
        Max(a, b) == IF a > b THEN a ELSE b
        start0 == Max(1, page - (maxVisiblePages \div 2))
        endPage == Min(totalPages, start0 + maxVisiblePages - 1)
        startPage == IF endPage - start0 + 1 < maxVisiblePages /\ start0 > 1
                     THEN Max(1, endPage - maxVisiblePages + 1) ELSE start0
    IN  (startPage..endPage)
        \cup (IF startPage > 1 THEN {1} ELSE {})
        \cup (IF endPage < totalPages THEN {totalPages} ELSE {})

\* the number of servers of the fleet that getServerStatus gives the status
statusCount(ai, patterns, data, status) ==
    Cardinality({i \in 1..Len(data) : getServerStatus(ai, patterns, data[i]) = status})

\* updateGlobalStatusSummary: returns at once for an empty fleet, otherwise
\* renders the three counts
summaryOf(old, ai, patterns, data) ==
    IF Len(data) = 0 THEN old
    ELSE [rendered |-> TRUE,
          normal   |-> statusCount(ai, patterns, data, "normal"),
          warning  |-> statusCount(ai, patterns, data, "warning"),
          critical |-> statusCount(ai, patterns, data, "critical")]

-----------------------------------------------------------------------------
(* State after construction *)

\* AIProcessor.constructor with initializeData, and the fields that
\* the generator once its background generation has finished, as the data
\* processor sees it: no batch is pending and no fleet is held here
generationFinished ==
    /\ generatorServerData = <<>>
    /\ windowServerData = <<>>
    /\ isGenerating = FALSE
    /\ generatedCount = 0
    /\ currentHour = 0
    /\ batchTimers = 0

\* DataProcessor.constructor sets, for window.serverData = fleet
processorsConstructed(ai, fleet) ==
    /\ aiProcessor = ai
    /\ serverData = (IF ai = "AIProcessor" THEN fleet ELSE <<>>)
    /\ serverDataAbsent = FALSE
    /\ historicalData =
          (IF ai = "AIProcessor" /\ Len(fleet) > 0
           THEN addDataToHistory(EmptyObject, initProblemPatterns, fleet, 0).hist
           ELSE EmptyObject)
    /\ problemPatterns = (IF ai = "AIProcessor" THEN initProblemPatterns ELSE <<>>)
    /\ dpServerData = fleet
    /\ filteredData = <<>>
    /\ currentFilter = "all"
    /\ searchQuery = <<>>
    /\ currentPage = 1
    /\ itemsPerPage = 6
    /\ statusSummary = NoSummary
    /\ problemsData = <<>>
    /\ currentProblemPage = 1
    /\ problemList = <<>>
    /\ hasLoggedAIProcessorError = FALSE
    /\ hasLoggedNoAIProcessor = FALSE
    /\ now = 0
    /\ updates = 0
    /\ ret = [op |-> "none"]

\* the processors constructed beside a generator that has finished
Constructed(ai, fleet) ==
    /\ processorsConstructed(ai, fleet)
    /\ generatorHistoricalData = EmptyObject
    /\ generationFinished

\* window.serverData when the processors are constructed: not yet generated,
\* or the first server of the initial batch
InitialFleets ==
    {<<>>, <<("hostname" :> Hostnames[1]) @@
              Profile(95, 40, 30, [nginx |-> "running"], <<>>, Net(0, 0))>>}

Init ==
    \E ai \in {"AIProcessor", "null"} : \E fleet \in InitialFleets : Constructed(ai, fleet)

\* the processors constructed on a fleet the generator has already produced
InitDetect ==
    \E ai \in {"AIProcessor", "null"} : \E fleet \in Fleets : Constructed(ai, fleet)

\* the AI processor constructed on a fleet whose snapshots lack fields
InitRobust ==
    \E fleet \in MalformedFleets : Constructed("AIProcessor", fleet)

\* both processors constructed on a generated fleet, the AI processor being
\* the current class or the legacy class without detectProblems
InitProblems ==
    \E ai \in {"AIProcessor", "legacy"} : \E fleet \in Fleets : Constructed(ai, fleet)

InitClassify ==
    \E ai \in {"AIProcessor", "null"} : \E s \in Snapshots : Constructed(ai, <<s>>)

-----------------------------------------------------------------------------
(* Operations *)

\* time passes between two handlers
Tick ==
    /\ now < MaxClock
    /\ now' = now + 1
    /\ UNCHANGED <<aiProcessor, serverData, serverDataAbsent, historicalData, problemPatterns,
                   dpServerData, problemsData, currentProblemPage, problemList,
                   hasLoggedAIProcessorError, hasLoggedNoAIProcessor, updates, ret, otherVars>>

\* the serverDataUpdated listener of AIProcessor: updateData(event.detail)
UpdateData ==
    /\ aiProcessor = "AIProcessor"
    /\ updates < MaxUpdates
    /\ \E newData \in Fleets :
          \E r \in {addDataToHistory(historicalData, problemPatterns, newData, now)} :
              /\ serverData' = newData
              /\ serverDataAbsent' = FALSE
              /\ historicalData' = r.hist
              /\ ret' = [op |-> "updateData", threw |-> r.threw]
    /\ updates' = updates + 1
    /\ UNCHANGED <<aiProcessor, problemPatterns, dpServerData, problemsData,
                   currentProblemPage, problemList, hasLoggedAIProcessorError,
                   hasLoggedNoAIProcessor, now, otherVars>>

\* the listener run for an event without detail: updateData(undefined) stores
\* the value, and addDataToHistory raises at data.forEach
UpdateDataAbsent ==
    /\ aiProcessor = "AIProcessor"
    /\ updates < MaxUpdates
    /\ serverData' = <<>>
    /\ serverDataAbsent' = TRUE
    /\ ret' = [op |-> "updateData", threw |-> TRUE]
    /\ updates' = updates + 1
    /\ UNCHANGED <<aiProcessor, historicalData, problemPatterns, dpServerData,
                   problemsData, currentProblemPage, problemList,
                   hasLoggedAIProcessorError, hasLoggedNoAIProcessor, now, otherVars>>

\* a call of aiProcessor.getEffectiveServerStatus on a server of the fleet
GetEffectiveServerStatus ==
    /\ aiProcessor = "AIProcessor"
    /\ \E i \in 1..Len(serverData) :
          ret' = [op |-> "getEffectiveServerStatus", server |-> serverData[i],
                  status |-> getEffectiveServerStatus(problemPatterns, serverData[i])]
    /\ UNCHANGED <<aiProcessor, serverData, serverDataAbsent, historicalData, problemPatterns,
                   dpServerData, problemsData, currentProblemPage, problemList,
                   hasLoggedAIProcessorError, hasLoggedNoAIProcessor, now, updates, otherVars>>

\* a call of DataProcessor.getServerStatus on a server of its fleet
GetServerStatus ==
    /\ \E i \in 1..Len(dpServerData) :
          LET server == dpServerData[i]
              path == statusPath(aiProcessor, problemPatterns, server)
          IN  /\ ret' = [op |-> "getServerStatus", server |-> server, path |-> path,
                         status |-> getServerStatus(aiProcessor, problemPatterns, server)]
              /\ hasLoggedAIProcessorError' =
                    (hasLoggedAIProcessorError \/ path = "ai-threw")
              /\ hasLoggedNoAIProcessor' = (hasLoggedNoAIProcessor \/ path = "no-ai")
    /\ UNCHANGED <<aiProcessor, serverData, serverDataAbsent, historicalData, problemPatterns,
                   dpServerData, problemsData, currentProblemPage, problemList,
                   now, updates, otherVars>>

\* variant: the pass takes the servers off this.serverData as it visits them
DetectProblemsConsuming ==
    /\ aiProcessor = "AIProcessor"
    /\ \E d \in {aiDetectProblems(serverDataAbsent, problemPatterns, serverData, now)} :
          ret' = [op |-> "detectProblems", threw |-> d.threw, problems |-> d.problems]
    /\ serverData' = <<>>
    /\ UNCHANGED <<aiProcessor, serverDataAbsent, historicalData, problemPatterns,
                   dpServerData, problemsData, currentProblemPage, problemList,
                   hasLoggedAIProcessorError, hasLoggedNoAIProcessor, now, updates, otherVars>>

\* a call of aiProcessor.detectProblems
DetectProblems ==
    /\ aiProcessor = "AIProcessor"
    /\ \E d \in {aiDetectProblems(serverDataAbsent, problemPatterns, serverData, now)} :
          ret' = [op |-> "detectProblems", threw |-> d.threw, problems |-> d.problems]
    /\ UNCHANGED <<aiProcessor, serverData, serverDataAbsent, historicalData, problemPatterns,
                   dpServerData, problemsData, currentProblemPage, problemList,
                   hasLoggedAIProcessorError, hasLoggedNoAIProcessor, now, updates, otherVars>>

\* variant: the page is rendered as it stands, without the adjustment
problemsViewAtUnadjusted(threw, problems, requested) ==
    LET totalProblems == Len(problems)
        startIdx == (requested - 1) * problemsPerPage
        endIdx == Min(startIdx + problemsPerPage, totalProblems)
    IN  IF threw \/ totalProblems = 0
        THEN [data |-> problemsData, page |-> requested, list |-> <<>>]
        ELSE [data |-> problems, page |-> requested,
              list |-> slice(problems, startIdx, endIdx)]

\* the part of updateProblemsList behind the filter and the sort: the empty
\* indicator, or problemsData, the page adjustment and the rendered page;
\* requested is this.currentProblemPage when the method starts
problemsViewAt(threw, problems, requested) ==
    LET totalProblems == Len(problems)
        totalPages == Ceil(totalProblems, problemsPerPage)
        page == IF requested > totalPages THEN totalPages ELSE requested
        startIdx == (page - 1) * problemsPerPage
        endIdx == Min(startIdx + problemsPerPage, totalProblems)
    IN  IF threw \/ totalProblems = 0
        THEN [data |-> problemsData, page |-> requested, list |-> <<>>]
        ELSE [data |-> problems, page |-> page, list |-> slice(problems, startIdx, endIdx)]

problemsView(threw, problems) == problemsViewAt(threw, problems, currentProblemPage)

renderProblems(threw, problems) ==
    \E view \in {problemsView(threw, problems)} :
        /\ problemsData' = view.data
        /\ currentProblemPage' = view.page
        /\ problemList' = view.list
        /\ ret' = [op |-> "updateProblemsList", threw |-> threw]

\* the fallback detection asks getServerStatus for every server, which logs
\* once that the processor cannot classify
loggedByFallback(ai, data) ==
    hasLoggedNoAIProcessor \/ (ai # "AIProcessor" /\ Len(data) > 0)

\* DataProcessor.updateProblemsList
UpdateProblemsList ==
    /\ aiProcessor # "null"
    /\ \E d \in {problemsOf(aiProcessor, serverDataAbsent, problemPatterns,
                             serverData, dpServerData, now)} :
          \E problems \in {sortProblems(filterProblems(d.problems))} :
              renderProblems(d.threw, problems)
    /\ hasLoggedNoAIProcessor' = loggedByFallback(aiProcessor, dpServerData)
    /\ UNCHANGED <<aiProcessor, serverData, serverDataAbsent, historicalData, problemPatterns,
                   dpServerData, hasLoggedAIProcessorError, now, updates, otherVars>>

\* DataProcessor.showAllProblems up to the list handed to the modal: an alert
\* when the processor lacks detectProblems, when the pass raises, and when
\* the list is empty
ShowAllProblems ==
    /\ aiProcessor # "null"
    /\ IF aiProcessor # "AIProcessor"
       THEN ret' = [op |-> "showAllProblems", shown |-> FALSE, problems |-> <<>>]
       ELSE \E d \in {aiDetectProblems(serverDataAbsent, problemPatterns, serverData, now)} :
              \E problems \in {sortProblems(filterProblems(d.problems))} :
                  ret' = [op |-> "showAllProblems",
                          shown |-> (~d.threw /\ Len(problems) > 0),
                          problems |-> problems]
    /\ UNCHANGED <<aiProcessor, serverData, serverDataAbsent, historicalData, problemPatterns,
                   dpServerData, problemsData, currentProblemPage, problemList,
                   hasLoggedAIProcessorError, hasLoggedNoAIProcessor, now, updates,
                   otherVars>>

\* updateProblemsList of the earlier data processor: no test for the method,
\* ascending sort, then the first three entries, or ten when expanded
UpdateProblemsListEarlier ==
    /\ aiProcessor # "null"
    /\ \E expanded \in BOOLEAN :
          IF aiProcessor # "AIProcessor"
          THEN /\ problemList' = <<>>
               /\ ret' = [op |-> "updateProblemsListEarlier", threw |-> TRUE,
                          expanded |-> expanded]
          ELSE \E d \in {aiDetectProblems(serverDataAbsent, problemPatterns, serverData, now)} :
                 \E problems \in {sortProblemsEarlier(filterProblems(d.problems))} :
                    /\ problemList' =
                          (IF d.threw THEN <<>>
                           ELSE SubSeq(problems, 1,
                                       Min(Len(problems),
                                           IF expanded THEN maxExpandedItems
                                           ELSE maxInitialItems)))
                    /\ ret' = [op |-> "updateProblemsListEarlier", threw |-> d.threw,
                               expanded |-> expanded]
    /\ UNCHANGED <<aiProcessor, serverData, serverDataAbsent, historicalData, problemPatterns,
                   dpServerData, problemsData, currentProblemPage,
                   hasLoggedAIProcessorError, hasLoggedNoAIProcessor, now, updates,
                   otherVars>>

\* the servers applyFiltersAndSort asks getServerStatus about
classifiedByFilter(data, filter, query) ==
    IF filter = "all" THEN {}
    ELSE {i \in 1..Len(data) : passesFilters("null", <<>>, data[i], "all", query)}

\* the two log-once flags after getServerStatus ran for the servers at idx
loggedAfter(data, idx) ==
    /\ hasLoggedAIProcessorError' =
          (hasLoggedAIProcessorError
           \/ \E i \in idx : statusPath(aiProcessor, problemPatterns, data[i]) = "ai-threw")
    /\ hasLoggedNoAIProcessor' =
          (hasLoggedNoAIProcessor
           \/ \E i \in idx : statusPath(aiProcessor, problemPatterns, data[i]) = "no-ai")

\* DataProcessor.handleDataUpdate(data) at time t, the history of the AI
\* processor being hist when it is called: the fleet is stored, the AI
\* processor is updated (which appends a point per server), then the problem
\* list, the grid and the status summary are refreshed. The call of updateData
\* is outside any try: where it raises, or where the processor has no such
\* method, the handler ends there
handleDataUpdate(data, hist, t) ==
    /\ dpServerData' = data
    /\ \E r \in {IF aiProcessor = "AIProcessor"
                  THEN addDataToHistory(hist, problemPatterns, data, t)
                  ELSE [hist |-> hist, threw |-> aiProcessor # "null"]} :
          /\ historicalData' = r.hist
          /\ ret' = [op |-> "handleDataUpdate", threw |-> r.threw]
          /\ IF r.threw
             THEN UNCHANGED <<problemsData, currentProblemPage, problemList, filteredData,
                              statusSummary, hasLoggedAIProcessorError,
                              hasLoggedNoAIProcessor>>
             ELSE /\ IF aiProcessor = "AIProcessor"
                     THEN \E d \in {aiDetectProblems(FALSE, problemPatterns, data, t)} :
                            \E view \in {problemsView(d.threw,
                                                      sortProblems(filterProblems(d.problems)))} :
                                /\ problemsData' = view.data
                                /\ currentProblemPage' = view.page
                                /\ problemList' = view.list
                     ELSE UNCHANGED <<problemsData, currentProblemPage, problemList>>
                  /\ filteredData' = applyFiltersAndSort(aiProcessor, problemPatterns, data,
                                                         currentFilter, searchQuery)
                  /\ statusSummary' = summaryOf(statusSummary, aiProcessor, problemPatterns, data)
                  /\ loggedAfter(data, 1..Len(data))

\* what a serverDataUpdated event does to the AI processor before the data
\* processor handles it: the listener of the AI processor runs updateData
historyAfterListener(data, t) ==
    IF aiProcessor = "AIProcessor"
    THEN addDataToHistory(historicalData, problemPatterns, data, t).hist
    ELSE historicalData

\* loadData finds window.serverData, at construction or on a later poll, and
\* hands it to handleDataUpdate
LoadData ==
    /\ updates = 0
    /\ Len(dpServerData) = 0
    /\ \E data \in GridFleets :
          /\ Len(data) > 0
          /\ handleDataUpdate(data, historicalData, now)
          /\ serverData' = (IF aiProcessor = "AIProcessor" THEN data ELSE serverData)
    /\ UNCHANGED <<aiProcessor, serverDataAbsent, problemPatterns, now, updates,
                   currentFilter, searchQuery, currentPage, itemsPerPage,
                   generatorHistoricalData, generatorVars>>

\* a serverDataUpdated event: the listener of the AI processor, then the
\* listener of the data processor, which is handleDataUpdate(event.detail)
DispatchServerDataUpdated ==
    /\ updates < MaxDispatches
    /\ \E data \in GridFleets :
          /\ handleDataUpdate(data, historyAfterListener(data, now), now)
          /\ serverData' = (IF aiProcessor = "null" THEN serverData ELSE data)
    /\ updates' = updates + 1
    /\ UNCHANGED <<aiProcessor, serverDataAbsent, problemPatterns, now,
                   currentFilter, searchQuery, currentPage, itemsPerPage,
                   generatorHistoricalData, generatorVars>>

\* the same event with a fleet whose problems fill up to four pages
DispatchProblemFleet ==
    /\ updates < MaxDispatches
    /\ \E data \in PagedFleets :
          /\ handleDataUpdate(data, historyAfterListener(data, now), now)
          /\ serverData' = (IF aiProcessor = "null" THEN serverData ELSE data)
    /\ updates' = updates + 1
    /\ UNCHANGED <<aiProcessor, serverDataAbsent, problemPatterns, now,
                   currentFilter, searchQuery, currentPage, itemsPerPage,
                   generatorHistoricalData, generatorVars>>

\* the pages of the problem pagination as last rendered: none when the list
\* was empty or fitted one page
renderedProblemPages ==
    IF Len(problemList) = 0 THEN 0
    ELSE IF Ceil(Len(problemsData), problemsPerPage) > 1
         THEN Ceil(Len(problemsData), problemsPerPage) ELSE 0

\* the page numbers for which a button was created
problemPageButtons ==
    LET maxVisiblePages == 5
        totalPages == renderedProblemPages
        Max(a, b) == IF a > b THEN a ELSE b
        start0 == Max(1, currentProblemPage - (maxVisiblePages \div 2))
        endPage == Min(totalPages, start0 + maxVisiblePages - 1)
        startPage == IF endPage - start0 + 1 < maxVisiblePages /\ start0 > 1
                     THEN Max(1, endPage - maxVisiblePages + 1) ELSE start0
    IN  IF totalPages = 0 THEN {} ELSE startPage..endPage

\* a click handler of the problem pagination: currentProblemPage is set to
\* requested, then updateProblemsList runs
problemPageClicked(requested, button) ==
    /\ \E d \in {problemsOf(aiProcessor, serverDataAbsent, problemPatterns,
                             serverData, dpServerData, now)} :
          \E view \in {problemsViewAt(d.threw, sortProblems(filterProblems(d.problems)),
                                      requested)} :
              /\ problemsData' = view.data
              /\ currentProblemPage' = view.page
              /\ problemList' = view.list
              /\ ret' = [op |-> button, threw |-> d.threw, requested |-> requested]
    /\ hasLoggedNoAIProcessor' = loggedByFallback(aiProcessor, dpServerData)
    /\ UNCHANGED <<aiProcessor, serverData, serverDataAbsent, historicalData, problemPatterns,
                   dpServerData, hasLoggedAIProcessorError, now, updates, otherVars>>

\* a click on the previous-page button of the problem list
ProblemPrevPage ==
    /\ renderedProblemPages > 0
    /\ currentProblemPage > 1
    /\ problemPageClicked(currentProblemPage - 1, "problemPrevPage")

\* a click on the next-page button of the problem list
ProblemNextPage ==
    /\ renderedProblemPages > 0
    /\ currentProblemPage < renderedProblemPages
    /\ problemPageClicked(currentProblemPage + 1, "problemNextPage")

\* a click on a numbered button of the problem list
ProblemPageClick ==
    \E i \in problemPageButtons : problemPageClicked(i, "problemPageClick")

\* one list of the history after points were pushed, from point j on; with
\* bounded set, the list loses a point each time it is over the bound
RECURSIVE pushPoints(_, _, _, _)
pushPoints(list, points, j, bounded) ==
    IF j > Len(points) THEN list
    ELSE LET pushed == Append(list, points[j])
             kept == IF bounded THEN shiftOldest(pushed, maxHistoricalPoints) ELSE pushed
         IN  pushPoints(kept, points, j + 1, bounded)

\* the history of the generator after the servers of data, from server i
\* on, were pushed in their order, each to the list of its hostname
generatorPush(hist, data, i, bounded) ==
    LET pushedData == SubSeq(data, i, Len(data))
        hostnames == {pushedData[k].hostname : k \in DOMAIN pushedData}
    IN  [hostname \in DOMAIN hist \cup hostnames |->
            LET ofHost(server) == server.hostname = hostname
            IN  pushPoints(IF hostname \in DOMAIN hist THEN hist[hostname] ELSE <<>>,
                           SelectSeq(pushedData, ofHost), 1, bounded)]

\* DummyDataGenerator.generateInitialBatch, run by the constructor: every
\* server is pushed to its history, then serverDataUpdated is dispatched
GenerateInitialBatch ==
    /\ generatorHistoricalData = EmptyObject
    /\ \E data \in {generatorFleet(now)} :
          /\ generatorHistoricalData' = generatorPush(generatorHistoricalData, data, 1, FALSE)
          /\ handleDataUpdate(data, historyAfterListener(data, now), now)
          /\ serverData' = (IF aiProcessor = "null" THEN serverData ELSE data)
    /\ UNCHANGED <<aiProcessor, serverDataAbsent, problemPatterns, now, updates,
                   currentFilter, searchQuery, currentPage, itemsPerPage, generatorVars>>

\* DummyDataGenerator.updateData, run every update interval: every server is
\* regenerated with the time of the cycle and pushed to its history, which
\* loses its oldest point when over the bound; then serverDataUpdated is
\* dispatched
GeneratorUpdateData ==
    /\ generatorHistoricalData # EmptyObject
    /\ updates < MaxCycles
    /\ ~isGenerating
    /\ currentHour' = (currentHour + 1) % dayHours
    /\ now' = now + 1
    /\ \E data \in {generatorFleet(now + 1)} :
          /\ generatorHistoricalData' = generatorPush(generatorHistoricalData, data, 1, TRUE)
          /\ handleDataUpdate(data, historyAfterListener(data, now + 1), now + 1)
          /\ serverData' = (IF aiProcessor = "null" THEN serverData ELSE data)
    /\ updates' = updates + 1
    /\ UNCHANGED <<aiProcessor, serverDataAbsent, problemPatterns,
                   currentFilter, searchQuery, currentPage, itemsPerPage,
                   generatorServerData, windowServerData, isGenerating, generatedCount,
                   batchTimers>>

\* what the handlers of the grid controls leave alone
gridUnchanged ==
    UNCHANGED <<aiProcessor, serverData, serverDataAbsent, historicalData, problemPatterns,
                dpServerData, problemsData, currentProblemPage, problemList, now, updates,
                statusSummary, generatorHistoricalData, generatorVars>>

\* the change listener of the status filter
StatusFilterChange ==
    /\ \E filter \in FilterOptions :
          /\ currentFilter' = filter
          /\ filteredData' = applyFiltersAndSort(aiProcessor, problemPatterns, dpServerData,
                                                 filter, searchQuery)
          /\ loggedAfter(dpServerData, classifiedByFilter(dpServerData, filter, searchQuery))
    /\ currentPage' = 1
    /\ ret' = [op |-> "statusFilterChange"]
    /\ UNCHANGED <<searchQuery, itemsPerPage>>
    /\ gridUnchanged

\* the input listener of the search box
SearchInput ==
    /\ \E query \in SearchQueries :
          /\ searchQuery' = query
          /\ filteredData' = applyFiltersAndSort(aiProcessor, problemPatterns, dpServerData,
                                                 currentFilter, query)
          /\ loggedAfter(dpServerData, classifiedByFilter(dpServerData, currentFilter, query))
    /\ currentPage' = 1
    /\ ret' = [op |-> "searchInput"]
    /\ UNCHANGED <<currentFilter, itemsPerPage>>
    /\ gridUnchanged

\* the change listener of the page size
PageSizeChange ==
    /\ \E size \in PageSizes : itemsPerPage' = size
    /\ currentPage' = 1
    /\ filteredData' = applyFiltersAndSort(aiProcessor, problemPatterns, dpServerData,
                                           currentFilter, searchQuery)
    /\ loggedAfter(dpServerData, classifiedByFilter(dpServerData, currentFilter, searchQuery))
    /\ ret' = [op |-> "pageSizeChange"]
    /\ UNCHANGED <<currentFilter, searchQuery>>
    /\ gridUnchanged

\* a click on the previous-page button
PrevPage ==
    /\ currentPage > 1
    /\ currentPage' = currentPage - 1
    /\ filteredData' = applyFiltersAndSort(aiProcessor, problemPatterns, dpServerData,
                                           currentFilter, searchQuery)
    /\ loggedAfter(dpServerData, classifiedByFilter(dpServerData, currentFilter, searchQuery))
    /\ ret' = [op |-> "prevPage"]
    /\ UNCHANGED <<currentFilter, searchQuery, itemsPerPage>>
    /\ gridUnchanged

\* a click on the next-page button
NextPage ==
    /\ currentPage < totalPagesOf(filteredData, itemsPerPage)
    /\ currentPage' = currentPage + 1
    /\ filteredData' = applyFiltersAndSort(aiProcessor, problemPatterns, dpServerData,
                                           currentFilter, searchQuery)
    /\ loggedAfter(dpServerData, classifiedByFilter(dpServerData, currentFilter, searchQuery))
    /\ ret' = [op |-> "nextPage"]
    /\ UNCHANGED <<currentFilter, searchQuery, itemsPerPage>>
    /\ gridUnchanged

\* a click on one of the numbered buttons of the last rendering
PageNumberClick ==
    /\ \E i \in pageButtons(currentPage, totalPagesOf(filteredData, itemsPerPage)) :
          currentPage' = i
    /\ ret' = [op |-> "pageNumberClick"]
    /\ UNCHANGED <<filteredData, currentFilter, searchQuery, itemsPerPage,
                   hasLoggedAIProcessorError, hasLoggedNoAIProcessor>>
    /\ gridUnchanged

Next ==
    \/ Tick
    \/ UpdateData
    \/ UpdateDataAbsent
    \/ GetEffectiveServerStatus
    \/ GetServerStatus
    \/ DetectProblems
    \/ UpdateProblemsList

Spec == Init /\ [][Next]_vars

\* the calls made on a constructed fleet between two data updates
NextDetect ==
    \/ Tick
    \/ GetEffectiveServerStatus
    \/ GetServerStatus
    \/ DetectProblems
    \/ UpdateProblemsList

SpecDetect == InitDetect /\ [][NextDetect]_vars

\* detection and classification on malformed fleets, and on an absent one
NextRobust ==
    \/ UpdateDataAbsent
    \/ GetEffectiveServerStatus
    \/ DetectProblems

SpecRobust == InitRobust /\ [][NextRobust]_vars

\* the builders of the displayed problem list, in both revisions
NextProblems ==
    \/ UpdateProblemsList
    \/ ShowAllProblems
    \/ UpdateProblemsListEarlier

SpecProblems == InitProblems /\ [][NextProblems]_vars

\* the processors constructed before the generator has produced a fleet
InitGrid ==
    \E ai \in {"AIProcessor", "null"} : Constructed(ai, <<>>)

\* the data updates and the controls of the server grid
NextGrid ==
    \/ LoadData
    \/ DispatchServerDataUpdated
    \/ StatusFilterChange
    \/ SearchInput
    \/ PageSizeChange
    \/ PrevPage
    \/ NextPage
    \/ PageNumberClick

SpecGrid == InitGrid /\ [][NextGrid]_vars

\* both processors constructed before the generator
InitHistory == Constructed("AIProcessor", <<>>)

\* the generator's initial batch and its update cycles
NextHistory ==
    \/ GenerateInitialBatch
    \/ GeneratorUpdateData

SpecHistory == InitHistory /\ [][NextHistory]_vars

\* the data updates and the pagination of the problem list
NextProblemPages ==
    \/ DispatchProblemFleet
    \/ ProblemPrevPage
    \/ ProblemNextPage
    \/ ProblemPageClick

SpecProblemPages == InitHistory /\ [][NextProblemPages]_vars

\* both processors constructed on a fleet with null mounts
InitFallback ==
    \E fleet \in NullMountedFleets : Constructed("AIProcessor", fleet)

\* classification calls on such a fleet
NextFallback ==
    \/ GetEffectiveServerStatus
    \/ GetServerStatus

SpecFallback == InitFallback /\ [][NextFallback]_vars

NextClassify ==
    \/ GetEffectiveServerStatus
    \/ GetServerStatus

SpecClassify == InitClassify /\ [][NextClassify]_vars

-----------------------------------------------------------------------------
(* DummyDataGenerator: the fleet, its background generation and updateData *)
(*                                                                         *)
(* A usage of the generator is kept in hundredths of a percent, the two    *)
(* decimals that toFixed(2) keeps: 9800 is 98.00.  Of a server the model   *)
(* keeps the hostname and the three usages.  The random numbers of one     *)
(* batch, and of one pass of updateData, are one draw shared by its        *)
(* servers.  The listeners of serverDataUpdated are those of the           *)
(* operations above; here the event is recorded in ret.                    *)

Max(a, b) == IF a > b THEN a ELSE b

\* DummyDataGenerator: this.serverCount, this.initialBatchSize, and the
\* batchSize of generateRemainingServersAsync
serverCount == 50
initialBatchSize == 10
batchSize == 5

\* this.timePatterns.dailyPattern, the weight of hour h at index h + 1
dailyPattern ==
    <<30, 20, 15, 10, 10, 15, 25, 40, 60, 70, 75, 80,
      85, 90, 85, 80, 75, 70, 65, 60, 55, 50, 40, 35>>

\* this.serverConfigurations: prefix, count, and base and variation of the
\* three usages
Configuration(prefix, count, cpu, memory, disk) ==
    [prefix |-> prefix, count |-> count,
     cpu |-> [base |-> cpu[1], variation |-> cpu[2]],
     memory |-> [base |-> memory[1], variation |-> memory[2]],
     disk |-> [base |-> disk[1], variation |-> disk[2]]]

serverConfigurations ==
    <<Configuration(<<"w", "e", "b">>, 15, <<40, 15>>, <<50, 15>>, <<45, 10>>),
      Configuration(<<"a", "p", "p">>, 10, <<55, 20>>, <<60, 15>>, <<40, 10>>),
      Configuration(<<"d", "b">>, 8, <<45, 15>>, <<70, 15>>, <<65, 15>>),
      Configuration(<<"c", "a", "c", "h", "e">>, 5, <<30, 20>>, <<80, 15>>, <<25, 10>>),
      Configuration(<<"a", "p", "i">>, 7, <<50, 20>>, <<55, 15>>, <<35, 10>>),
      Configuration(<<"m", "o", "n", "i", "t", "o", "r">>, 5, <<35, 10>>, <<50, 10>>,
                    <<60, 15>>)>>

\* this.regions
regions == <<<<"k", "r">>, <<"u", "s">>, <<"e", "u">>, <<"j", "p">>, <<"s", "g">>>>

\* the loop of createServerByConfiguration over the configurations: the
\* first whose cumulated count exceeds index, the first of all when none does
RECURSIVE selectConfigFrom(_, _, _)
selectConfigFrom(index, c, currentCount) ==
    IF c > Len(serverConfigurations) THEN serverConfigurations[1]
    ELSE IF index < currentCount + serverConfigurations[c].count
         THEN serverConfigurations[c]
    ELSE selectConfigFrom(index, c + 1, currentCount + serverConfigurations[c].count)

selectedConfig(index) == selectConfigFrom(index, 1, 0)

\* Number.prototype.toString of a natural number, as decimal digits
digitChars == <<"0", "1", "2", "3", "4", "5", "6", "7", "8", "9">>

RECURSIVE numberToString(_)
numberToString(n) ==
    IF n < 10 THEN <<digitChars[n + 1]>>
    ELSE Append(numberToString(n \div 10), digitChars[(n % 10) + 1])

\* String.prototype.padStart
RECURSIVE padStart(_, _, _)
padStart(str, targetLength, padChar) ==
    IF Len(str) >= targetLength THEN str
    ELSE padStart(<<padChar>> \o str, targetLength, padChar)

\* a hostname of prefix and region alone
hostnameWithoutNumber(prefix, region, index) == prefix \o <<"-">> \o region

\* the template `${prefix}-${region}-${serverNumber}`
hostnameOf(prefix, region, index) ==
    prefix \o <<"-">> \o region \o <<"-">> \o padStart(numberToString(index + 1), 3, "0")

\* hostname.split('-')[0]
RECURSIVE splitFirst(_, _)
splitFirst(str, i) ==
    IF i > Len(str) \/ str[i] = "-" THEN SubSeq(str, 1, i - 1)
    ELSE splitFirst(str, i + 1)

serverTypeOf(hostname) == splitFirst(hostname, 1)

\* serverConfigurations.find(c => c.prefix === serverType) || the first
configOfType(serverType) ==
    IF \E c \in DOMAIN serverConfigurations : serverConfigurations[c].prefix = serverType
    THEN serverConfigurations[CHOOSE c \in DOMAIN serverConfigurations :
                                  /\ serverConfigurations[c].prefix = serverType
                                  /\ \A d \in 1..(c - 1) :
                                        serverConfigurations[d].prefix # serverType]
    ELSE serverConfigurations[1]

\* a usage of whole percents, in hundredths
Percent(n) == n * 100

\* createServerByConfiguration: a base of a critical or warning server whose
\* drawn type names the resource (or 4, several) is replaced
baseOf(config, resource, draw) ==
    IF draw.rand = "critical" /\ draw.type[resource] \in {resource, 4}
    THEN 90 + draw.criticalExtra
    ELSE IF draw.rand = "warning" /\ draw.type[resource] \in {resource, 4}
         THEN 70 + draw.warningExtra
    ELSE config.base + draw.offset * config.variation

\* Math.min(Math.max(Math.floor(base * timeWeightMultiplier) + variation, 5), 98)
createdUsage(base, hour, variation) ==
    Percent(Min(Max(((base * dailyPattern[hour + 1]) \div 100) + variation, 5), 98))

\* DummyDataGenerator.createServerByConfiguration(index) at hour, with the
\* random numbers of draw
createServerByConfiguration(index, hour, draw) ==
    LET config == selectedConfig(index)
    IN  [hostname |-> hostnameOf(config.prefix, regions[draw.region], index),
         cpu_usage |-> createdUsage(baseOf(config.cpu, 1, draw), hour, draw.variation),
         memory_usage_percent |->
             createdUsage(baseOf(config.memory, 2, draw), hour, draw.variation),
         disk |-> <<[disk_usage_percent |->
                        createdUsage(baseOf(config.disk, 3, draw), hour,
                                     draw.diskVariation)]>>]

\* the random numbers of one batch: the region, the status roll, the
\* position of getRandomInt(-variation, variation) in its range, the
\* variations, the resource types and the extras of a raised base
CreationDraws ==
    {[region |-> 1, rand |-> "normal", offset |-> -1, variation |-> -10,
      diskVariation |-> -5, type |-> <<1, 1, 1>>, criticalExtra |-> 0, warningExtra |-> 0],
     [region |-> 5, rand |-> "critical", offset |-> 1, variation |-> 10,
      diskVariation |-> 5, type |-> <<4, 4, 4>>, criticalExtra |-> 8, warningExtra |-> 19]}

\* the draws of the batch that starts at index: any draw for a batch that
\* starts below MaxDrawn, the draws in turn afterwards
DrawsAt(index) ==
    IF index < MaxDrawn THEN CreationDraws
    ELSE {draw \in CreationDraws :
             draw.rand = (IF (index \div batchSize) % 2 = 0 THEN "normal" ELSE "critical")}

\* the servers index .. index + count - 1, created in this order
createBatch(index, count, hour, draw) ==
    [i \in 1..count |-> createServerByConfiguration(index + i - 1, hour, draw)]

\* updateData: the status it reads off a server before the pass
isCritical(server) ==
    \/ server.cpu_usage >= Percent(90)
    \/ server.memory_usage_percent >= Percent(90)
    \/ server.disk[1].disk_usage_percent >= Percent(90)

isWarning(server) ==
    /\ ~isCritical(server)
    /\ \/ server.cpu_usage >= Percent(70)
       \/ server.memory_usage_percent >= Percent(70)
       \/ server.disk[1].disk_usage_percent >= Percent(70)

\* criticalCount and warningCount when the pass reaches server i
criticalCountAt(data, i) == Cardinality({j \in 1..i : isCritical(data[j])})
warningCountAt(data, i) == Cardinality({j \in 1..i : isWarning(data[j])})

\* the status transition of server i: roll1 and roll2 are the outcomes of
\* the two Math.random() comparisons of its branch
changeOf(data, i, draw) ==
    IF isCritical(data[i])
    THEN IF draw.roll1 THEN (IF draw.roll2 THEN "normal" ELSE "warning") ELSE "none"
    ELSE IF isWarning(data[i])
         THEN IF draw.roll1 THEN (IF draw.roll2 THEN "normal" ELSE "critical") ELSE "none"
    ELSE IF criticalCountAt(data, i) < (Len(data) * 4) \div 100 /\ draw.roll1
         THEN "critical"
    ELSE IF warningCountAt(data, i) < (Len(data) * 10) \div 100 /\ draw.roll2
         THEN "warning"
    ELSE "none"

\* cpu_base * (timeWeightMultiplier - 0.5) * 0.8, exact in hundredths since
\* the bases and the weights are multiples of 5
timeInfluence(config, hour) == ((config.cpu.base * 8) \div 10) * (dailyPattern[hour + 1] - 50)

\* the change of one usage: the drawn change plus the influence of the
\* hour, raised to reach 90 or 70 when the transition picks this resource,
\* replaced by a drop when the server returns to normal from 70 or more
deltaOf(usage, change, resource, draw, influence) ==
    IF change = "critical" /\ draw.resourceType[resource] = resource
    THEN Max(Percent(90) - usage, Percent(draw.change[resource]))
    ELSE IF change = "warning" /\ draw.resourceType[resource] = resource
         THEN Max(Percent(70) - usage, Percent(draw.change[resource]))
    ELSE IF change = "normal" /\ usage >= Percent(70)
         THEN 0 - Percent(draw.drop[resource])
    ELSE Percent(draw.change[resource]) + influence

\* cpu_delta: for the CPU the influence is added after the adjustment, and
\* the sum is limited to -20 .. 20
cpuDeltaOf(usage, change, draw, influence) ==
    LET baseChange == deltaOf(usage, change, 1, draw, 0)
    IN  Max(Min(baseChange + influence, Percent(20)), 0 - Percent(20))

\* without the limits
updatedUsageUnclamped(usage, delta) == usage + delta

\* Math.max(5, Math.min(98, usage + delta))
updatedUsage(usage, delta) == Max(Percent(5), Min(Percent(98), usage + delta))

\* the body of the map of updateData for server i: {...server, usages}
updateServer(data, i, hour, draw) ==
    LET server == data[i]
        config == configOfType(serverTypeOf(server.hostname))
        change == changeOf(data, i, draw)
        influence == timeInfluence(config, hour)
    IN  [server EXCEPT
            !.cpu_usage = updatedUsage(@, cpuDeltaOf(@, change, draw, influence)),
            !.memory_usage_percent =
                updatedUsage(@, deltaOf(@, change, 2, draw, (influence * 8) \div 10)),
            !.disk = <<[@[1] EXCEPT !.disk_usage_percent =
                          updatedUsage(@, deltaOf(@, change, 3, draw,
                                                  (influence * 4) \div 10))]>>]

\* the random numbers of one pass: the two rolls of the transition, the
\* resource the transition picks, the drawn changes (-15..15, -10..10,
\* -5..7) and the drops (10..30, 10..30, 5..20)
UpdateDraws ==
    {[roll1 |-> TRUE, roll2 |-> TRUE, resourceType |-> <<2, 2, 2>>,
      change |-> <<-15, -10, -5>>, drop |-> <<30, 30, 20>>],
     [roll1 |-> TRUE, roll2 |-> FALSE, resourceType |-> <<1, 1, 3>>,
      change |-> <<15, 10, 7>>, drop |-> <<10, 10, 5>>],
     [roll1 |-> FALSE, roll2 |-> FALSE, resourceType |-> <<3, 3, 3>>,
      change |-> <<-15, -10, -5>>, drop |-> <<20, 20, 10>>]}

\* DummyDataGenerator.generateRemainingServersAsync: what it leaves of
\* isGenerating, generatedCount and the pending timers
generateRemainingServersAsyncUnguarded(generating, count, timers) ==
    [isGenerating |-> TRUE, generatedCount |-> initialBatchSize, batchTimers |-> timers + 1]

generateRemainingServersAsync(generating, count, timers) ==
    IF generating
    THEN [isGenerating |-> generating, generatedCount |-> count, batchTimers |-> timers]
    ELSE [isGenerating |-> TRUE, generatedCount |-> initialBatchSize,
          batchTimers |-> timers + 1]

\* the hours at which the generator is constructed
StartHours == {13, 23}

\* DummyDataGenerator.constructor: generateInitialBatch creates the initial
\* batch at the hour of the clock, pushes it to the histories, assigns
\* window.serverData, dispatches, and calls generateRemainingServersAsync
InitGenerator ==
    /\ processorsConstructed("null", <<>>)
    /\ currentHour \in StartHours
    /\ \E draw \in DrawsAt(0) :
          /\ generatorServerData = createBatch(0, Min(initialBatchSize, serverCount),
                                               currentHour, draw)
          /\ generatorHistoricalData =
                generatorPush(EmptyObject, generatorServerData, 1, FALSE)
          /\ windowServerData = generatorServerData
    /\ \E started \in {generateRemainingServersAsync(FALSE, 0, 0)} :
          /\ isGenerating = started.isGenerating
          /\ generatedCount = started.generatedCount
          /\ batchTimers = started.batchTimers

processorsUnchanged ==
    UNCHANGED <<aiProcessor, serverData, serverDataAbsent, historicalData, problemPatterns,
                dpServerData, problemsData, currentProblemPage, problemList,
                hasLoggedAIProcessorError, hasLoggedNoAIProcessor, now,
                gridVars, statusSummary>>

\* the timer callback generateBatch
GenerateBatch ==
    /\ batchTimers > 0
    /\ IF serverCount - generatedCount <= 0
       THEN /\ isGenerating' = FALSE
            /\ batchTimers' = batchTimers - 1
            /\ ret' = [op |-> "generateBatch", dispatched |-> FALSE]
            /\ UNCHANGED <<generatorServerData, windowServerData, generatedCount,
                           generatorHistoricalData>>
       ELSE \E draw \in DrawsAt(generatedCount) :
            \E batchCount \in {Min(batchSize, serverCount - generatedCount)} :
            \E newServers \in {createBatch(generatedCount, batchCount, currentHour, draw)} :
               /\ generatorHistoricalData' =
                     generatorPush(generatorHistoricalData, newServers, 1, FALSE)
               /\ generatorServerData' = generatorServerData \o newServers
               /\ generatedCount' = generatedCount + batchCount
               /\ windowServerData' = generatorServerData'
               /\ batchTimers' = (batchTimers - 1) + 1
               /\ ret' = [op |-> "generateBatch", dispatched |-> TRUE]
               /\ UNCHANGED isGenerating
    /\ UNCHANGED <<currentHour, updates>>
    /\ processorsUnchanged

\* a further call of generateRemainingServersAsync while the generation runs
GenerateRemainingServersAsync ==
    /\ isGenerating
    /\ ret.op # "generateRemainingServersAsync"
    /\ \E started \in {generateRemainingServersAsync(isGenerating, generatedCount,
                                                     batchTimers)} :
          /\ isGenerating' = started.isGenerating
          /\ generatedCount' = started.generatedCount
          /\ batchTimers' = started.batchTimers
    /\ ret' = [op |-> "generateRemainingServersAsync", dispatched |-> FALSE]
    /\ UNCHANGED <<generatorServerData, windowServerData, generatorHistoricalData,
                   currentHour, updates>>
    /\ processorsUnchanged

\* updateData: a pass that never skips
skipsNever(generating) == FALSE

\* updateData: if (this.isGenerating) return, after the hour was advanced
skipsUpdate(generating) == generating

\* a timer tick of startDataUpdates: updateData
UpdateDataTick ==
    /\ updates < MaxTicks
    /\ updates' = updates + 1
    /\ currentHour' = (currentHour + 1) % dayHours
    /\ IF skipsUpdate(isGenerating)
       THEN /\ ret' = [op |-> "updateData", dispatched |-> FALSE]
            /\ UNCHANGED <<generatorServerData, windowServerData, generatorHistoricalData>>
       ELSE \E draw \in UpdateDraws :
            \E updated \in {[i \in DOMAIN generatorServerData |->
                               updateServer(generatorServerData, i, currentHour', draw)]} :
               /\ generatorServerData' = updated
               /\ generatorHistoricalData' =
                     generatorPush(generatorHistoricalData, updated, 1, TRUE)
               /\ windowServerData' = updated
               /\ ret' = [op |-> "updateData", dispatched |-> TRUE]
    /\ UNCHANGED <<isGenerating, generatedCount, batchTimers>>
    /\ processorsUnchanged

NextGenerator ==
    \/ GenerateBatch
    \/ GenerateRemainingServersAsync
    \/ UpdateDataTick

SpecGenerator == InitGenerator /\ [][NextGenerator]_vars

\* the timers of the browser fire: a pending generateBatch is run
SpecGeneratorFair == SpecGenerator /\ WF_vars(GenerateBatch)

-----------------------------------------------------------------------------
(* Vocabulary of the properties: the conditions as the specification words *)
(* them, read off a snapshot without the rule table                        *)

Statuses == {"normal", "warning", "critical"}

\* the value of a numeric field, or -1 when the snapshot does not carry it
Cpu(s) == IF "cpu_usage" \in DOMAIN s THEN s.cpu_usage ELSE -1
Memory(s) == IF "memory_usage_percent" \in DOMAIN s THEN s.memory_usage_percent ELSE -1
FirstMount(s) ==
    IF "disk" \in DOMAIN s /\ s.disk # <<>> /\ "disk_usage_percent" \in DOMAIN Head(s.disk)
    THEN Head(s.disk).disk_usage_percent ELSE -1

SameLetter(a, b) == a = b \/ (a \in DOMAIN lowerOf /\ lowerOf[a] = b)

\* some error message of s contains the lower-case word, in any letter case
Mentions(s, word) ==
    /\ "errors" \in DOMAIN s
    /\ \E m \in 1..Len(s.errors) :
          /\ s.errors[m].typeof = "string"
          /\ \E k \in 1..Len(s.errors[m].chars) :
                /\ k + Len(word) - 1 <= Len(s.errors[m].chars)
                /\ \A j \in 1..Len(word) :
                      SameLetter(s.errors[m].chars[k + j - 1], word[j])

AnyStopped(s) ==
    /\ "services" \in DOMAIN s
    /\ \E name \in DOMAIN s.services : s.services[name] = "stopped"

ManyNetworkErrors(s) ==
    /\ "net" \in DOMAIN s
    /\ (s.net.rx_errors > 50 \/ s.net.tx_errors > 50)

CriticalCondition(s) ==
    \/ Cpu(s) >= 90
    \/ Memory(s) >= 90
    \/ FirstMount(s) >= 90
    \/ Mentions(s, kwCritical)
    \/ AnyStopped(s)

WarningCondition(s) ==
    \/ Cpu(s) >= 70
    \/ Memory(s) >= 70
    \/ FirstMount(s) >= 70
    \/ Mentions(s, kwWarning)
    \/ Mentions(s, kwError)

\* the last call was a classification of a snapshot (not of null)
Classified ==
    /\ ret.op \in {"getEffectiveServerStatus", "getServerStatus"}
    /\ ~IsNull(ret.server)

-----------------------------------------------------------------------------
(* Classification: C1, C2, C3, C10 under SpecClassify *)

\* C1: classify returns 'critical' exactly when cpu >= 90, memory >= 90,
\* first-mount disk >= 90, a message contains 'critical' in any case, or a
\* service is stopped; on the AI path and on the built-in fallback path.
C1_CriticalIff ==
    Classified => (ret.status = "critical" <=> CriticalCondition(ret.server))

\* the fallback path returned 'critical' for a stopped service while every
\* numeric metric is 0
C1_Witness ==
    /\ ret.op = "getServerStatus" /\ ~IsNull(ret.server)
    /\ ret.path = "no-ai"
    /\ ret.status = "critical"
    /\ Cpu(ret.server) = 0 /\ Memory(ret.server) = 0 /\ FirstMount(ret.server) = 0
    /\ AnyStopped(ret.server)
    /\ ~Mentions(ret.server, kwCritical)

\* C2: when no Critical condition holds, classify returns 'warning' whenever
\* cpu >= 70, memory >= 70, first-mount disk >= 70 or a message contains
\* 'warning' or 'error'; without a Critical condition it never returns
\* 'critical'.
C2_WarningTier ==
    (Classified /\ ~CriticalCondition(ret.server)) =>
        /\ ret.status # "critical"
        /\ WarningCondition(ret.server) => ret.status = "warning"

\* the AI path returned 'warning' for cpu exactly 70 and nothing else raised
C2_Witness ==
    /\ ret.op = "getEffectiveServerStatus" /\ ~IsNull(ret.server)
    /\ ret.status = "warning"
    /\ Cpu(ret.server) = 70 /\ Memory(ret.server) = 0 /\ FirstMount(ret.server) = 0
    /\ ~CriticalCondition(ret.server)
    /\ ~Mentions(ret.server, kwWarning) /\ ~Mentions(ret.server, kwError)
    /\ ~ManyNetworkErrors(ret.server)

\* C3: when cpu, memory and disk are below 70, no service is stopped and no
\* message contains 'critical', 'warning' or 'error', classify returns
\* 'normal' whatever the network error counters are.
C3_NormalBelowThresholds ==
    (Classified /\ ~CriticalCondition(ret.server) /\ ~WarningCondition(ret.server))
        => ret.status = "normal"

\* C10: classify returns one of the three statuses for a snapshot with any
\* subset of the optional fields absent, an absent field meeting no
\* condition: 'critical' only on a Critical condition of a present field,
\* 'warning' only on a Warning condition or on network errors.
C10_Total ==
    Classified =>
        /\ ret.status \in Statuses
        /\ ret.status = "critical" => CriticalCondition(ret.server)
        /\ ret.status = "warning" =>
              (WarningCondition(ret.server) \/ ManyNetworkErrors(ret.server))

\* the AI path returned 'normal' for a snapshot that carries a hostname only
C10_Witness ==
    /\ ret.op = "getEffectiveServerStatus" /\ ~IsNull(ret.server)
    /\ DOMAIN ret.server = {"hostname"}
    /\ ret.status = "normal"

-----------------------------------------------------------------------------
(* Detection: C4 .. C9 under SpecDetect *)

\* the last call was a detection pass that returned
Detected == ret.op = "detectProblems" /\ ~ret.threw

\* the last call was updateProblemsList and it rendered a list
Ranked == ret.op = "updateProblemsList" /\ ~ret.threw /\ problemList # <<>>

\* positions of the entries of a problem list that belong to a server and rule
EntriesFor(problems, hostname, description) ==
    {k \in 1..Len(problems) :
        /\ problems[k].serverHostname = hostname
        /\ problems[k].description = description}

EntriesOfServer(problems, hostname) ==
    {k \in 1..Len(problems) : problems[k].serverHostname = hostname}

\* the (server, rule) pairs of the fleet whose predicate is true
TruePairs ==
    {<<i, j>> \in (1..Len(serverData)) \X (1..Len(problemPatterns)) :
        condition(problemPatterns[j].id, serverData[i])}

\* position of an entry's rule in the table, and of its server in the fleet
RuleIndex(entry) ==
    CHOOSE j \in 1..Len(problemPatterns) :
        problemPatterns[j].description = entry.description
ServerIndex(entry) ==
    CHOOSE i \in 1..Len(serverData) : serverData[i].hostname = entry.serverHostname

CriticalFirst(problems) ==
    \A a, b \in 1..Len(problems) :
        (problems[a].severity = "Critical" /\ problems[b].severity \in {"Warning", "Error"})
            => a < b

\* the fields of a DetectedProblem other than the time stamp
Content(entry) ==
    [serverHostname |-> entry.serverHostname, severity |-> entry.severity,
     description |-> entry.description, causes |-> entry.causes,
     solution |-> entry.solution]
Contents(problems) == [k \in 1..Len(problems) |-> Content(problems[k])]

\* C4: detect emits exactly one entry per (server, rule) pair whose predicate
\* is true and nothing else; a server matching k rules appears k times.
C4_OnePerTruePair ==
    Detected =>
        /\ Len(ret.problems) = Cardinality(TruePairs)
        /\ \A i \in 1..Len(serverData) : \A j \in 1..Len(problemPatterns) :
              Cardinality(EntriesFor(ret.problems, serverData[i].hostname,
                                     problemPatterns[j].description))
                 = (IF <<i, j>> \in TruePairs THEN 1 ELSE 0)
        /\ \A k \in 1..Len(ret.problems) :
              \E i \in 1..Len(serverData) :
                  ret.problems[k].serverHostname = serverData[i].hostname

\* a pass over two servers in which one server matches four rules
C4_Witness ==
    /\ Detected
    /\ Len(serverData) = 2
    /\ \E i \in 1..Len(serverData) :
          Cardinality(EntriesOfServer(ret.problems, serverData[i].hostname)) = 4

\* a server whose only triggering condition is cpu at or above 90
OnlyCpuCritical(s) ==
    /\ Cpu(s) >= 90 /\ Memory(s) < 70 /\ FirstMount(s) < 70
    /\ ~AnyStopped(s) /\ ~ManyNetworkErrors(s)
    /\ ~Mentions(s, kwCritical) /\ ~Mentions(s, kwWarning) /\ ~Mentions(s, kwError)

\* C5: for a server whose only triggering condition is a resource at or
\* above 90, detect holds exactly one entry, that of the critical rule.
C5_CriticalInsteadOfWarning ==
    Detected =>
        \A i \in 1..Len(serverData) :
            OnlyCpuCritical(serverData[i]) =>
                \E k \in 1..Len(ret.problems) :
                    /\ EntriesOfServer(ret.problems, serverData[i].hostname) = {k}
                    /\ ret.problems[k].description = problemPatterns[1].description

\* C6 as stated: in the list detect returns, every Critical entry precedes
\* every Warning/Error entry.
C6_DetectCriticalFirst == Detected => CriticalFirst(ret.problems)

\* C6 amended: the list updateProblemsList builds from detect's output is
\* Critical-first, and when the fleet holds a Critical server its first entry
\* belongs to a server classified Critical; detect's own list is
\* Critical-first within each server's entries only.
C6_RankedCriticalFirst ==
    /\ CriticalFirst(problemsData)
    /\ Ranked =>
          /\ problemsData = sortProblems(filterProblems(problemsData))
          /\ (\E i \in 1..Len(serverData) : CriticalCondition(serverData[i]))
                => CriticalCondition(serverData[ServerIndex(problemsData[1])])
    /\ Detected =>
          \A a, b \in 1..Len(ret.problems) :
              (/\ ret.problems[a].serverHostname = ret.problems[b].serverHostname
               /\ ret.problems[a].severity = "Critical"
               /\ ret.problems[b].severity = "Warning") => a < b

\* the ranked list starts with the second server of the fleet, the first
\* server being the one with warnings only
C6_Witness ==
    /\ Ranked
    /\ Len(serverData) = 2
    /\ ~CriticalCondition(serverData[1]) /\ WarningCondition(serverData[1])
    /\ CriticalCondition(serverData[2])
    /\ problemsData[1].serverHostname = serverData[2].hostname
    /\ problemsData[Len(problemsData)].serverHostname = serverData[1].hostname

\* C7 as stated: among entries of one severity the ranked list is in
\* rule-table order first, then server order.
C7_RuleMajorOrder ==
    Ranked =>
        \A a, b \in 1..Len(problemsData) :
            (a < b /\ problemsData[a].severity = problemsData[b].severity)
                => RuleIndex(problemsData[a]) <= RuleIndex(problemsData[b])

\* C7 amended: among entries of one severity the ranked list keeps the
\* evaluation order of detect, which is server order first and rule-table
\* order within a server.
C7_ServerMajorOrder ==
    Ranked =>
        /\ \A sev \in {"Critical", "Warning"} :
              SelectSeq(Contents(problemsData), LAMBDA e : e.severity = sev)
                = SelectSeq(Contents(detectFrom(problemPatterns, serverData, now, 1)),
                            LAMBDA e : e.severity = sev)
        /\ \A a, b \in 1..Len(problemsData) :
              (a < b /\ problemsData[a].severity = problemsData[b].severity) =>
                  \/ ServerIndex(problemsData[a]) < ServerIndex(problemsData[b])
                  \/ /\ ServerIndex(problemsData[a]) = ServerIndex(problemsData[b])
                     /\ RuleIndex(problemsData[a]) < RuleIndex(problemsData[b])

\* in the ranked list a match of a later rule stands before a match of an
\* earlier rule of the same severity
C7_Witness ==
    /\ Ranked
    /\ \E a, b \in 1..Len(problemsData) :
          /\ a < b
          /\ problemsData[a].severity = problemsData[b].severity
          /\ RuleIndex(problemsData[a]) > RuleIndex(problemsData[b])

-----------------------------------------------------------------------------
(* Robustness and layering: C11, C12, C13, C15 under SpecRobust *)

\* the field of the snapshot that a rule reads
RuleField(id) ==
    CASE id \in {"critical_cpu", "warning_cpu"}       -> "cpu_usage"
      [] id \in {"critical_memory", "warning_memory"} -> "memory_usage_percent"
      [] id \in {"critical_disk", "warning_disk"}     -> "disk"
      [] id = "service_down"                          -> "services"
      [] id \in {"critical_error_message", "warning_error_message"} -> "errors"
      [] id = "network_errors"                        -> "net"

\* the rule's condition in the words of the specification
Triggers(id, s) ==
    CASE id = "critical_cpu"           -> Cpu(s) >= 90
      [] id = "critical_memory"        -> Memory(s) >= 90
      [] id = "critical_disk"          -> FirstMount(s) >= 90
      [] id = "service_down"           -> AnyStopped(s)
      [] id = "critical_error_message" -> Mentions(s, kwCritical)
      [] id = "warning_cpu"            -> Cpu(s) >= 70
      [] id = "warning_memory"         -> Memory(s) >= 70
      [] id = "warning_disk"           -> FirstMount(s) >= 70
      [] id = "warning_error_message"  -> Mentions(s, kwWarning) \/ Mentions(s, kwError)
      [] id = "network_errors"         -> ManyNetworkErrors(s)

\* the fleet holds objects only
NoNullServer == \A i \in 1..Len(serverData) : ~IsNull(serverData[i])

\* the last call was a detection pass, whether it returned or raised
DetectCalled == ret.op = "detectProblems"

\* the returned list holds an entry for server i and rule j
HasEntry(i, j) ==
    EntriesFor(ret.problems, serverData[i].hostname, problemPatterns[j].description) # {}

\* C11: on a fleet whose snapshots lack any of the fields, detectProblems
\* returns without raising, holds no entry for a rule whose field is missing,
\* and holds exactly one entry for every other pair whose condition is met.
C11_MissingFields ==
    (DetectCalled /\ ~serverDataAbsent /\ NoNullServer) =>
        /\ ~ret.threw
        /\ \A i \in 1..Len(serverData) : \A j \in 1..Len(problemPatterns) :
              /\ ~Has(serverData[i], RuleField(problemPatterns[j].id)) => ~HasEntry(i, j)
              /\ Cardinality(EntriesFor(ret.problems, serverData[i].hostname,
                                        problemPatterns[j].description))
                    = (IF Triggers(problemPatterns[j].id, serverData[i]) THEN 1 ELSE 0)

\* a pass over a snapshot without disk, which yields the eight entries of
\* its other fields, and a snapshot that carries a hostname only
C11_Witness ==
    /\ Detected
    /\ Len(serverData) = 2
    /\ ~Has(serverData[1], "disk") /\ Len(ret.problems) = 8
    /\ DOMAIN serverData[2] = {"hostname"}

\* C12: when a condition raises for some (rule, server) pair, the pass
\* still returns, and its list holds the entry of every other pair whose
\* condition is met.
C12_SkipsThrowingPair ==
    (DetectCalled /\ ~serverDataAbsent) =>
        /\ ~ret.threw
        /\ \A i \in 1..Len(serverData) : \A j \in 1..Len(problemPatterns) :
              (~IsNull(serverData[i]) /\ Triggers(problemPatterns[j].id, serverData[i]))
                  => HasEntry(i, j)

\* C13: detectProblems on an empty or absent fleet returns the empty list
\* without raising, and so does it on a fleet in which no server meets the
\* condition of any rule.
C13_EmptyFleet ==
    DetectCalled =>
        /\ (serverDataAbsent \/ serverData = <<>>) =>
              (~ret.threw /\ ret.problems = <<>>)
        /\ (/\ NoNullServer
            /\ \A i \in 1..Len(serverData) : \A j \in 1..Len(problemPatterns) :
                  ~Triggers(problemPatterns[j].id, serverData[i]))
              => (~ret.threw /\ ret.problems = <<>>)

\* a pass made while this.serverData is undefined
C13_Witness ==
    /\ DetectCalled
    /\ serverDataAbsent
    /\ ~ret.threw /\ ret.problems = <<>>

\* C15: after a pass that returned, for every server of the fleet
\* getEffectiveServerStatus is 'critical' iff the list holds a Critical
\* entry of the server, 'warning' iff it holds entries of the server and
\* none is Critical, and 'normal' iff it holds no entry of the server.
C15_SameRules ==
    (Detected /\ ~serverDataAbsent) =>
        \A i \in 1..Len(serverData) :
            LET status == getEffectiveServerStatus(problemPatterns, serverData[i])
                mine == EntriesOfServer(ret.problems, serverData[i].hostname)
                crit == {k \in mine : ret.problems[k].severity = "Critical"}
            IN  /\ status = "critical" <=> crit # {}
                /\ status = "warning" <=> (mine # {} /\ crit = {})
                /\ status = "normal" <=> mine = {}

\* a pass over a server with network errors only, which is 'warning' with
\* one entry, and a server with every rule met
C15_Witness ==
    /\ Detected
    /\ Len(serverData) = 2
    /\ DOMAIN serverData[1] = {"hostname", "net"}
    /\ Cardinality(EntriesOfServer(ret.problems, serverData[1].hostname)) = 1
    /\ getEffectiveServerStatus(problemPatterns, serverData[1]) = "warning"
    /\ Cardinality(EntriesOfServer(ret.problems, serverData[2].hostname)) = 10

-----------------------------------------------------------------------------
(* The displayed problem list: C16, C17 under SpecProblems *)

\* the list a builder of the problem list showed last: the rendered page or
\* collapsed view, or the list handed to the modal
Displayed ==
    IF ret.op = "showAllProblems" THEN ret.problems ELSE problemList

ListBuilt == ret.op \in {"updateProblemsList", "showAllProblems", "updateProblemsListEarlier"}

\* a detection pass over the fleet finds an entry of that severity
Finds(severity) ==
    \E k \in 1..Len(detectFrom(problemPatterns, serverData, now, 1)) :
        detectFrom(problemPatterns, serverData, now, 1)[k].severity = severity

\* C16 as stated: in every revision the list built for display is
\* Critical-first, in the first page, the modal and the collapsed view.
C16_EveryRevisionCriticalFirst == ListBuilt => CriticalFirst(Displayed)

\* C16 amended: updateProblemsList and showAllProblems of the current data
\* processor build a Critical-first list, whose first entry is Critical when
\* the pass finds one; the earlier updateProblemsList sorts ascending, so its
\* list is Warning/Error-first and its first entry is a Warning when the
\* pass finds one.
C16_CurrentCriticalFirst ==
    /\ (ret.op \in {"updateProblemsList", "showAllProblems"} /\ aiProcessor = "AIProcessor") =>
          /\ CriticalFirst(Displayed)
          /\ Finds("Critical") => (Displayed # <<>> /\ Displayed[1].severity = "Critical")
    /\ (ret.op = "updateProblemsListEarlier" /\ ~ret.threw) =>
          /\ \A a, b \in 1..Len(problemList) :
                (problemList[a].severity = "Warning" /\ problemList[b].severity = "Critical")
                    => a < b
          /\ Finds("Warning") => (problemList # <<>> /\ problemList[1].severity = "Warning")

\* the collapsed view of the earlier revision shows three Warning entries
\* while the pass finds a Critical one
C16_Witness ==
    /\ ret.op = "updateProblemsListEarlier" /\ ~ret.threw /\ ~ret.expanded
    /\ Len(problemList) = maxInitialItems
    /\ \A k \in 1..Len(problemList) : problemList[k].severity = "Warning"
    /\ Finds("Critical")

\* C17: with a processor that lacks detectProblems, updateProblemsList
\* renders one problem per server whose status is critical or warning, of
\* severity Critical or Warning and with the server's hostname, and none
\* for a normal server.
C17_FallbackProblems ==
    (ret.op = "updateProblemsList" /\ aiProcessor = "legacy" /\ ~ret.threw) =>
        \A i \in 1..Len(dpServerData) :
            LET status == getServerStatus(aiProcessor, problemPatterns, dpServerData[i])
                mine == EntriesOfServer(problemList, dpServerData[i].hostname)
            IN  /\ status = "critical" =>
                      \E k \in mine : mine = {k} /\ problemList[k].severity = "Critical"
                /\ status = "warning" =>
                      \E k \in mine : mine = {k} /\ problemList[k].severity = "Warning"
                /\ status = "normal" => mine = {}

-----------------------------------------------------------------------------
(* The fleet-wide tally *)

\* handleDataUpdate has just run to its end
Handled == ret.op = "handleDataUpdate" /\ ~ret.threw

\* the three counts are those of classify over the fleet of the data processor
TallyOfFleet ==
    \A status \in Statuses :
        statusSummary[status] = statusCount(aiProcessor, problemPatterns, dpServerData, status)

\* C14: after a data update the normal, warning and critical counts of the
\* status summary each equal the number of servers of the fleet with that
\* classification, they sum to the fleet size, and for an empty fleet all
\* three are zero
C14_FleetTally ==
    Handled =>
        /\ TallyOfFleet
        /\ statusSummary.normal + statusSummary.warning + statusSummary.critical
               = Len(dpServerData)
        /\ (Len(dpServerData) = 0 =>
               statusSummary.normal = 0 /\ statusSummary.warning = 0
               /\ statusSummary.critical = 0)

\* the part of C14 for a fleet that is not empty
TallyOfNonEmptyFleet == (Handled /\ Len(dpServerData) > 0) => TallyOfFleet

-----------------------------------------------------------------------------
(* The page of the server grid *)

\* C20: after any sequence of filter changes, searches, page-size changes,
\* page clicks and data updates, currentPage lies within
\* 1..max(1, ceil(filteredData.length / itemsPerPage)), and the grid shows
\* at least one card whenever filteredData is not empty
C20_CurrentPageInRange ==
    /\ currentPage >= 1
    /\ currentPage <= (IF totalPagesOf(filteredData, itemsPerPage) > 1
                       THEN totalPagesOf(filteredData, itemsPerPage) ELSE 1)
    /\ (Len(filteredData) > 0 =>
           Len(serverGridCards(filteredData, currentPage, itemsPerPage)) > 0)

-----------------------------------------------------------------------------
(* The per-host histories *)

\* the number of points kept for a host
PointsOf(hist, hostname) == IF hostname \in DOMAIN hist THEN Len(hist[hostname]) ELSE 0

\* every list of the history has at most max points
Bounded(hist, max) == \A hostname \in DOMAIN hist : Len(hist[hostname]) <= max

\* new is old with points of time t pushed at its end, the last of them
\* kept, and with points taken off its front only, and only to end at max
PushedOldestOff(old, new, max, t) ==
    /\ Len(new) > 0
    /\ new[Len(new)].timestamp = toISOString(t)
    /\ \E d \in 0..Len(old) :
          /\ Len(new) >= Len(old) - d
          /\ SubSeq(new, 1, Len(old) - d) = SubSeq(old, d + 1, Len(old))
          /\ \A j \in (Len(old) - d + 1)..Len(new) : new[j].timestamp = toISOString(t)
          /\ (d > 0 => Len(new) = max)

\* the step is a dispatch of serverDataUpdated by the generator
Dispatched == generatorHistoricalData' # generatorHistoricalData

\* the history of a host before the step, empty if it had none
Before(hist, hostname) == IF hostname \in DOMAIN hist THEN hist[hostname] ELSE <<>>

\* C18: after any sequence of data updates every per-host history list, of
\* the AI processor and of the data generator, has at most 144 points, and a
\* push over the bound removes the oldest point
C18_HistoryBounded ==
    /\ [](Bounded(historicalData, 144) /\ Bounded(generatorHistoricalData, 144))
    /\ [][Dispatched =>
            \A i \in 1..Len(serverData') :
                LET hostname == serverData'[i].hostname
                IN  /\ PushedOldestOff(Before(historicalData, hostname),
                                       historicalData'[hostname], 144, now')
                    /\ PushedOldestOff(Before(generatorHistoricalData, hostname),
                                       generatorHistoricalData'[hostname], 144, now')]_vars

\* both histories of a host are full and have lost their first points
C18_Witness ==
    \E hostname \in DOMAIN historicalData \cap DOMAIN generatorHistoricalData :
        /\ Len(historicalData[hostname]) = 144
        /\ historicalData[hostname][1].timestamp # toISOString(0)
        /\ Len(generatorHistoricalData[hostname]) = 144
        /\ generatorHistoricalData[hostname][1].timestamp # toISOString(0)

\* C19: every dispatch of serverDataUpdated appends exactly one point per
\* server to the history of the AI processor, so that a full list of 144
\* points covers 144 update cycles
C19_OnePointPerDispatch ==
    /\ [][Dispatched =>
            \A i \in 1..Len(serverData') :
                PointsOf(historicalData', serverData'[i].hostname)
                  = Min(PointsOf(historicalData, serverData'[i].hostname) + 1,
                        maxHistoryPoints)]_vars
    /\ [](\A hostname \in DOMAIN historicalData :
            Len(historicalData[hostname]) = maxHistoryPoints =>
                historicalData[hostname][maxHistoryPoints].timestamp
                  - historicalData[hostname][1].timestamp = maxHistoryPoints - 1)

-----------------------------------------------------------------------------
(* The page of the problem list *)

\* updateProblemsList has run on the present fleet and its list was not empty
ProblemsRendered ==
    /\ ret.op # "none"
    /\ ~ret.threw
    /\ \E d \in {aiDetectProblems(serverDataAbsent, problemPatterns, serverData, now)} :
          \E problems \in {filterProblems(d.problems)} : Len(problems) > 0

\* C21: whenever updateProblemsList renders a non-empty problem list,
\* 1 <= currentProblemPage <= ceil(problems.length / problemsPerPage), after
\* any sequence of data updates and problem-page clicks; a page that fell out
\* of range is moved to the last page
C21_ProblemPageInRange ==
    /\ [](ProblemsRendered =>
            /\ currentProblemPage >= 1
            /\ currentProblemPage <= Ceil(Len(problemsData), 5))
    /\ [][(ProblemsRendered' /\ ret'.op = "handleDataUpdate"
            /\ currentProblemPage > Ceil(Len(problemsData'), 5))
           => currentProblemPage' = Ceil(Len(problemsData'), 5)]_vars

\* a data update has shrunk the list to three pages and the list is shown
\* at its last page
C21_Witness ==
    /\ ProblemsRendered
    /\ ret.op = "handleDataUpdate"
    /\ updates = 2
    /\ Len(problemsData) > 10
    /\ Len(problemsData) <= 15
    /\ currentProblemPage = 3

-----------------------------------------------------------------------------
(* The two classifiers side by side *)

\* C22: the built-in fallback of getServerStatus returns, for every server
\* snapshot, the same status as AIProcessor.getEffectiveServerStatus
C22_FallbackAgrees ==
    (ret.op = "getServerStatus" /\ ret.path = "no-ai" /\ ~IsNull(ret.server)) =>
        ret.status = getEffectiveServerStatus(initProblemPatterns, ret.server)

\* the delegation of getServerStatus raised and the catch block ran
DelegateThrew == ret.op = "getServerStatus" /\ ret.path = "ai-threw"

\* C23: when aiProcessor.getEffectiveServerStatus throws, getServerStatus
\* does not propagate the exception but returns the fallback status, one of
\* 'normal', 'warning', 'critical', and the failure is logged once
C23_FallbackOnThrow ==
    DelegateThrew => (ret.status \in Statuses /\ hasLoggedAIProcessorError)

\* the part of C23 about the log: the catch block leaves the flag set
LoggedOnThrow == DelegateThrew => hasLoggedAIProcessorError

\* whenever the delegate raises, so does the fallback cascade
FallbackThrowsToo == DelegateThrew => ret.status = Throw

-----------------------------------------------------------------------------
(* The background generation of the fleet *)

\* the fleet is complete and the generation has ended
GenerationDone == generatedCount = serverCount /\ ~isGenerating

\* serverData holds as many servers as were counted, at most serverCount,
\* and at most one chain of generateBatch callbacks is pending
CountedFleet ==
    /\ Len(generatorServerData) = generatedCount
    /\ generatedCount <= serverCount
    /\ batchTimers <= 1

\* a further call of generateRemainingServersAsync
CalledAgain == ret'.op = "generateRemainingServersAsync"

\* C24: the background generation terminates: from the initial batch of
\* 10 the generateBatch callbacks eventually reach generatedCount =
\* serverCount = 50 with isGenerating false; at every step serverData holds
\* generatedCount servers, never more than 50, and a call of
\* generateRemainingServersAsync while isGenerating is true starts no
\* second chain
C24_GenerationTerminates ==
    /\ (generatedCount = initialBatchSize /\ isGenerating = TRUE)
    /\ []CountedFleet
    /\ [][isGenerating = TRUE /\ CalledAgain =>
             /\ batchTimers' = batchTimers
             /\ generatedCount' = generatedCount
             /\ isGenerating' = TRUE]_vars
    /\ <>GenerationDone

\* the fleet was completed by the callbacks and the last callback ended
\* the generation
C24_Witness ==
    /\ GenerationDone
    /\ Len(generatorServerData) = serverCount
    /\ batchTimers = 0
    /\ ret.op = "generateBatch"

-----------------------------------------------------------------------------
(* updateData while the fleet is generated *)

\* a tick of the update timer was handled
Ticked == updates' = updates + 1

\* the number at the end of a hostname
ServerNumber(server) == SubSeq(server.hostname, Len(server.hostname) - 2, Len(server.hostname))

\* the servers counted so far are in the fleet, each once and in the order
\* of their numbers 001, 002, ...
EveryServerOnce ==
    /\ Len(generatorServerData) = generatedCount
    /\ \A i \in DOMAIN generatorServerData :
          ServerNumber(generatorServerData[i]) = padStart(numberToString(i), 3, "0")

\* C25: an updateData tick while isGenerating is true is skipped: it
\* advances currentHour by one (mod 24), leaves serverData, historicalData
\* and window.serverData unchanged and dispatches no event; so under every
\* interleaving of ticks and generateBatch callbacks no server is lost or
\* duplicated
C25_TickSkippedWhileGenerating ==
    /\ []EveryServerOnce
    /\ [][isGenerating = TRUE /\ Ticked =>
             /\ currentHour' = (currentHour + 1) % 24
             /\ generatorServerData' = generatorServerData
             /\ generatorHistoricalData' = generatorHistoricalData
             /\ windowServerData' = windowServerData
             /\ ret'.dispatched = FALSE]_vars

\* a tick was skipped between two batches, at the turn of the day
C25_Witness ==
    /\ isGenerating = TRUE
    /\ ret = [op |-> "updateData", dispatched |-> FALSE]
    /\ Len(generatorServerData) > initialBatchSize
    /\ Len(generatorServerData) < serverCount
    /\ currentHour = 0

-----------------------------------------------------------------------------
(* The hostnames of a fleet *)

\* no two servers of the fleet share a hostname
UniqueHostnames(fleet) ==
    \A i, j \in DOMAIN fleet : fleet[i].hostname = fleet[j].hostname => i = j

\* the part of a hostname before its number
PrefixAndRegion(server) == SubSeq(server.hostname, 1, Len(server.hostname) - 3)

\* C26: hostnames are unique within every fleet the generator produces,
\* after the initial batch, after every background batch and after every
\* updateData, and updateData never changes the hostname of a server
C26_HostnamesUnique ==
    /\ [](UniqueHostnames(generatorServerData) /\ UniqueHostnames(windowServerData))
    /\ [][Ticked =>
             /\ Len(generatorServerData') = Len(generatorServerData)
             /\ \A i \in DOMAIN generatorServerData :
                   generatorServerData'[i].hostname = generatorServerData[i].hostname]_vars

\* updateData has passed over the complete fleet, in which two servers
\* differ by their number only
C26_Witness ==
    /\ ret = [op |-> "updateData", dispatched |-> TRUE]
    /\ Len(generatorServerData) = serverCount
    /\ \E i, j \in DOMAIN generatorServerData :
          /\ i # j
          /\ PrefixAndRegion(generatorServerData[i]) = PrefixAndRegion(generatorServerData[j])

-----------------------------------------------------------------------------
(* The usages of the generated servers *)

\* a usage between 5 and 98 percent
Clamped(usage) == Percent(5) <= usage /\ usage <= Percent(98)

\* the three usages of a server
UsagesOf(server) ==
    {server.cpu_usage, server.memory_usage_percent, server.disk[1].disk_usage_percent}

\* C27: the generator keeps the usages clamped: for every server created
\* by createServerByConfiguration, and after any number of updateData
\* passes, cpu_usage, memory_usage_percent and disk[0].disk_usage_percent
\* lie in 5..98
C27_UsageClamped ==
    \A i \in DOMAIN generatorServerData :
        \A usage \in UsagesOf(generatorServerData[i]) : Clamped(usage)

\* a pass of updateData has left usages at both limits
C27_Witness ==
    /\ ret = [op |-> "updateData", dispatched |-> TRUE]
    /\ \E i \in DOMAIN generatorServerData :
          Percent(98) \in UsagesOf(generatorServerData[i])
    /\ \E i \in DOMAIN generatorServerData :
          Percent(5) \in UsagesOf(generatorServerData[i])

====
